---- MODULE Spec2Model ----
(***************************************************************************)
(* V-Login: the rotating proxy pool (utils/proxyPool.js) and the login     *)
(* retry orchestrator (core/login_with_retry.js, core/puppeteer.js).       *)
(*                                                                         *)
(* The repository holds several revisions of both.  The variable impl says *)
(* which revision of the pool a behaviour runs:                            *)
(*   "lock"      src/utils/proxyPool.js:1-353   lock table, returns null   *)
(*   "wait"      src/utils/proxyPool.js:507-774 lastUsed + cooldown, waits *)
(*   "candidate" src/unnamed/part_004:74-360    waits once, then hands out *)
(*                                              the candidate anyway       *)
(* orch says which revision of loginWithRetry runs:                        *)
(*   "retry"     src/core/login_with_retry.js:45-83, on top of             *)
(*               launchAndConnectToBrowser; launcher says which one:       *)
(*                 "five"  src/core/puppeteer.js:825-892                   *)
(*                 "three" src/unnamed/part_013:329-405                    *)
(*   "report"    src/unnamed/part_015:17-82, which reports to the pool     *)
(* Times are milliseconds, as in the code.                                 *)
(*                                                                         *)
(* Specifications:                                                         *)
(*   Spec          the pool with its callers, reports and the passage of   *)
(*                 time                                                    *)
(*   SpecBackoff   reports on one proxy in any order, and the decay timer  *)
(*                 FairBackoff the same with a timer that keeps firing     *)
(*   SpecRetry     one login, FairRetry the same under fair scheduling     *)
(*   SpecDeadline  one login and the 60 seconds of api/login.js            *)
(*   SpecStore     the pool and proxyStats.json: saveProxyStats step by    *)
(*                 step, a disk that can fail, restarts                    *)
(*   SpecSession   one runPuppeteer with its performLogin, in every        *)
(*                 revision of core/puppeteer.js and core/login_handler.js *)
(*   SpecFlight    the pool and the attempts that run through its proxies, *)
(*                 with src/unnamed/part_003 as a fourth pool, "table"     *)
(*   SpecApi       the handler of POST /login in its revisions, FairApi    *)
(*                 the same with sessions and timers that run to their end *)
(*   SpecDecaying  the pool of proxyPool.js:507-774 with its decay timer   *)
(*   SpecWaiting   calls of getNextProxy that wait, in runs without end,   *)
(*                 FairWaiting the same with timers that fire              *)
(***************************************************************************)
EXTENDS Integers, Sequences, FiniteSets, TLC

VARIABLES
  impl,           \* which revision of utils/proxyPool.js runs
  proxyList,      \* the proxies loaded at startup, in the order of the file
  proxyStats,     \* proxyStats[proxy] = {cooldown, successCount, failCount, useCount, lastUsed}
  lockedProxies,  \* lockedProxies[proxy] = timestamp until unlocked, 0 = no entry ("lock" only)
  pc,             \* per call of getNextProxy: "idle" or "sleeping"
  wakeAt,         \* per call: when its sleep(minRemaining) timer expires
  candidate,      \* per call: the candidate computed before sleeping
  ev,             \* history: the last pool operation
  streak,         \* history: failures reported in a row since the last success,
                  \*          -1 once a decay has changed the cooldown
  grants,         \* history: how often getNextProxy has returned a proxy
  held,           \* history: per proxy, grants whose outcome has not been reported yet
  ticks,          \* history: how often time has been let pass
  orch,           \* which revision of loginWithRetry runs, "none" without a login
  launcher,       \* which revision of launchAndConnectToBrowser runs
  net,            \* what the IP lookup of utils/ipUtils.js does
  proxy,          \* loginWithRetry's parameter proxy
  opc,            \* where loginWithRetry stands
  launch,         \* the locals of the running launchAndConnectToBrowser
  result,         \* loginWithRetry's result
  newProxy,       \* loginWithRetry's newProxy
  promised,       \* what the promise held by newProxy resolves to
  runs,           \* history: invocations of the session runner
  acquires,       \* history: calls of getNextProxy made for this login
  attempts,       \* history: the last two attempts, {proxy, outcome}
  onlyTimeouts,   \* history: every attempt so far has ended with a navigation timeout
  expired,        \* the 60 seconds api/login.js gives the request have passed
  line,           \* the line of proxies.txt behind the proxy of the stats file specification
  flights,        \* per proxy: when the attempts in flight through it have begun
  api,            \* the /login handler of api/login.js: its counter and its requests
  session,        \* the running runPuppeteer and its performLogin: revisions, flags, results
  file,           \* PROXY_STATS_FILE on disk: absent, a whole document or a cut one
  tempFile,       \* PROXY_STATS_FILE + '.tmp' on disk
  saving,         \* where saveProxyStats stands, "down" while the process is not running
  raised,         \* the error that left the last pool operation, "none" if it returned
  lastSave,       \* history: how the last saveProxyStats ended
  saves           \* history: pool operations in the stats file specification

pool == <<proxyStats, lockedProxies, pc, wakeAt, candidate, ev, streak>>
budget == <<grants, held, ticks>>
store == <<line, file, tempFile, saving, raised, lastSave, saves>>
setup == <<impl, proxyList, orch, launcher, net, proxy, expired, store, session, flights, api>>
login == <<opc, launch, result, newProxy, promised, runs, acquires, attempts, onlyTimeouts>>
vars == <<pool, budget, setup, login>>

----------------------------------------------------------------------------
(* Settings *)

DEFAULT_LOCK_DURATION_MS == 15 * 60 * 1000
MAX_LOCK_DURATION_MS == 12 * 60 * 60 * 1000
FAILURE_MULTIPLIER == 2
DECAY_INTERVAL_MS == 60 * 60 * 1000

(* Bounds of the model *)
MaxUse == 1        \* proxies handed out by getNextProxy beyond one per proxy of the list
MaxTicks == 2      \* passages of time between operations
MaxFails == 7      \* failure reports standing on one proxy in the backoff specification
MaxSuccess == 2    \* success reports on one proxy in the backoff specification
MaxAcquires == 5   \* calls of getNextProxy made for one login

MaxLine == 2       \* characters of a line of proxies.txt after the protocol
MaxSaves == 2      \* operations of the pool in the stats file specification

Impls == {"lock", "wait", "candidate"}
ProxyLists == {<<"p1">>, <<"p1", "p2">>}
Proxies == {proxyList[i] : i \in 1..Len(proxyList)}
Callers == {"c1", "c2"}
null == "null"
pending == "pending"

\* Date.now().  The code reads timestamps only through their distance to
\* Date.now(), so the model keeps the present fixed and moves every stored
\* timestamp back when time passes.  A timestamp that reaches 0 is further
\* back than every cooldown and than the decay interval, like the
\* lastUsed = 0 of a proxy that was never used.
now == 2 * MAX_LOCK_DURATION_MS

Max(a, b) == IF a >= b THEN a ELSE b
Min(a, b) == IF a <= b THEN a ELSE b

----------------------------------------------------------------------------
(* Stats helpers *)

getStatsForProxy ==
  [cooldown |-> DEFAULT_LOCK_DURATION_MS, successCount |-> 0, failCount |-> 0,
   useCount |-> 0, lastUsed |-> 0]

\* cooldown || DEFAULT_LOCK_DURATION_MS
CooldownOrDefault(stats) ==
  IF stats.cooldown # 0 THEN stats.cooldown ELSE DEFAULT_LOCK_DURATION_MS

\* The end of the cooldown window the stats describe.
UnlockedAt(st, p) == st[p].lastUsed + st[p].cooldown

----------------------------------------------------------------------------
(* Reporting *)

\* A backoff that doubles without the cap Math.min(.., MAX_LOCK_DURATION_MS).
NewCooldownUncapped(stats) == CooldownOrDefault(stats) * FAILURE_MULTIPLIER

NewCooldown(stats) ==
  LET doubled == CooldownOrDefault(stats) * FAILURE_MULTIPLIER
  IN  IF doubled > MAX_LOCK_DURATION_MS THEN MAX_LOCK_DURATION_MS ELSE doubled

\* A failure report that extends the cooldown and does not count the failure.
reportProxyFailureUncounted(st, p, t) ==
  [st EXCEPT ![p] = [@ EXCEPT !.cooldown = NewCooldown(st[p]), !.lastUsed = t]]

\* reportProxyFailure: the stats afterwards
reportProxyFailure(st, p, t) ==
  [st EXCEPT ![p] = [@ EXCEPT !.failCount = @ + 1,
                              !.cooldown = NewCooldown(st[p]),
                              !.lastUsed = t]]

\* A success report that leaves the cooldown as the failures made it.
reportProxySuccessKeepingCooldown(st, p, t) ==
  [st EXCEPT ![p] = [@ EXCEPT !.successCount = @ + 1, !.lastUsed = t]]

\* reportProxySuccess: the stats afterwards
reportProxySuccess(st, p, t) ==
  [st EXCEPT ![p] = [@ EXCEPT !.successCount = @ + 1,
                              !.cooldown = DEFAULT_LOCK_DURATION_MS,
                              !.lastUsed = t]]

\* "lock" only: the lock table after a report
LockAfterFailure(lk, st, p, t) == [lk EXCEPT ![p] = t + NewCooldown(st[p])]
LockAfterSuccess(lk, p, t) == [lk EXCEPT ![p] = t]

StreakAfterFailure(p) == [streak EXCEPT ![p] = IF @ < 0 THEN @ ELSE @ + 1]

\* The proxies outside their cooldown window, now >= lastUsed + cooldown.
Free(st) == {p \in Proxies : now >= UnlockedAt(st, p)}

\* The record of an operation; free is filled in by getNextProxy alone.
Event(op, p, free) == [op |-> op, proxy |-> p, free |-> free]

\* reportProxyFailure(proxy)
ReportProxyFailure(p) ==
  /\ proxyStats' = reportProxyFailure(proxyStats, p, now)
  /\ lockedProxies' = IF impl = "lock"
                        THEN LockAfterFailure(lockedProxies, proxyStats, p, now)
                        ELSE lockedProxies
  /\ streak' = StreakAfterFailure(p)
  /\ ev' = Event("reportProxyFailure", p, {})
  /\ UNCHANGED <<pc, wakeAt, candidate>>

\* reportProxySuccess(proxy)
ReportProxySuccess(p) ==
  /\ proxyStats' = reportProxySuccess(proxyStats, p, now)
  /\ lockedProxies' = IF impl = "lock"
                        THEN LockAfterSuccess(lockedProxies, p, now)
                        ELSE lockedProxies
  /\ streak' = [streak EXCEPT ![p] = 0]
  /\ ev' = Event("reportProxySuccess", p, {})
  /\ UNCHANGED <<pc, wakeAt, candidate>>

----------------------------------------------------------------------------
(* Decay, "wait" only *)

\* A decay that does not look at when the proxy was last used.
DecaysWhateverTheAge(stats) == stats.failCount > 0

Decays(stats) == now - stats.lastUsed > DECAY_INTERVAL_MS /\ stats.failCount > 0

\* A decay that lowers failCount and leaves the cooldown where it is.
DecayedFailCountOnly(stats) ==
  IF Decays(stats) THEN [stats EXCEPT !.failCount = Max(@ - 1, 0)] ELSE stats

\* The cooldowns the model reaches are DEFAULT * 2^k and MAX / 2^k above
\* DEFAULT, all even, so the division is exact as in the code.
DecayedStats(stats) ==
  IF Decays(stats)
    THEN [stats EXCEPT
            !.failCount = Max(@ - 1, 0),
            !.cooldown = Max(DEFAULT_LOCK_DURATION_MS, @ \div FAILURE_MULTIPLIER)]
    ELSE stats

\* decayProxyStats(): the stats afterwards
decayProxyStats(st) == [p \in DOMAIN st |-> DecayedStats(st[p])]

----------------------------------------------------------------------------
(* Choosing a proxy *)

\* "lock": !lockedUntil || lockedUntil <= now
\* A lock table that is never consulted.
IsUnlockedAlways(lk, p, t) == TRUE

IsUnlockedLock(lk, p, t) == lk[p] = 0 \/ lk[p] <= t

\* "wait", "candidate": (stats.lastUsed + stats.cooldown) < now
IsUnlockedStats(st, p, t) == UnlockedAt(st, p) < t

UnlockedProxies(st, lk, t) ==
  {p \in Proxies : IF impl = "lock" THEN IsUnlockedLock(lk, p, t)
                                    ELSE IsUnlockedStats(st, p, t)}

\* remaining = (stats.lastUsed + stats.cooldown) - now
Remaining(st, p, t) == UnlockedAt(st, p) - t

\* proxyList.forEach: the first proxy of the list with the least remaining time
MinCandidate(st, t) ==
  LET i == CHOOSE i \in 1..Len(proxyList) :
             /\ \A j \in 1..Len(proxyList) :
                  Remaining(st, proxyList[i], t) <= Remaining(st, proxyList[j], t)
             /\ \A j \in 1..(i - 1) :
                  Remaining(st, proxyList[j], t) > Remaining(st, proxyList[i], t)
  IN  proxyList[i]

\* stats.useCount++; stats.lastUsed = Date.now()
MarkUsed(st, p, t) ==
  [st EXCEPT ![p] = [@ EXCEPT !.useCount = @ + 1, !.lastUsed = t]]

\* lockedProxies[chosenProxy] = now + cooldown
LockChosen(lk, st, p, t) == [lk EXCEPT ![p] = t + CooldownOrDefault(st[p])]

\* "lock" getNextProxy, called by c and returning ret
GetNextProxyLock(c, ret) ==
  /\ impl = "lock"
  /\ pc[c] = "idle"
  /\ LET unlocked == UnlockedProxies(proxyStats, lockedProxies, now)
     IN  IF unlocked = {}
           THEN /\ ret = null
                /\ UNCHANGED <<proxyStats, lockedProxies>>
           ELSE /\ ret \in unlocked
                /\ lockedProxies' = LockChosen(lockedProxies, proxyStats, ret, now)
                /\ proxyStats' = [proxyStats EXCEPT ![ret].lastUsed = now]
  /\ ev' = Event("getNextProxy", ret, Free(proxyStats))
  /\ UNCHANGED <<pc, wakeAt, candidate, streak>>

\* "wait" and "candidate" getNextProxy on the stats st, from its start to its
\* return of ret or to its await sleep(minRemaining), where ret is pending
ChooseOrSleep(st, c, ret) ==
  LET unlocked == UnlockedProxies(st, lockedProxies, now)
  IN  IF unlocked = {}
        THEN /\ ret = pending
             /\ proxyStats' = st
             /\ pc' = [pc EXCEPT ![c] = "sleeping"]
             /\ candidate' = [candidate EXCEPT ![c] = MinCandidate(st, now)]
             /\ ev' = Event("sleep", null, Free(st))
        ELSE /\ ret \in unlocked
             /\ proxyStats' = MarkUsed(st, ret, now)
             /\ pc' = [pc EXCEPT ![c] = "idle"]
             /\ candidate' = [candidate EXCEPT ![c] = null]
             /\ ev' = Event("getNextProxy", ret, Free(st))

\* The timer of a call that sleeps from now on.
SleepUntil(st) == now + Remaining(st, MinCandidate(st, now), now)

\* "wait" and "candidate" getNextProxy, called by c
GetNextProxyCall(c, ret) ==
  /\ impl \in {"wait", "candidate"}
  /\ pc[c] = "idle"
  /\ ChooseOrSleep(proxyStats, c, ret)
  /\ wakeAt' = [wakeAt EXCEPT ![c] = IF ret = pending THEN SleepUntil(proxyStats) ELSE 0]
  /\ UNCHANGED <<lockedProxies, streak>>

----------------------------------------------------------------------------
(* Time *)

Back(t, d) == IF t - d < 0 THEN 0 ELSE t - d

\* The state after d milliseconds have passed.
ShiftStats(st, d) == [p \in DOMAIN st |-> [st[p] EXCEPT !.lastUsed = Back(@, d)]]
ShiftLock(lk, d) == [p \in Proxies |-> Back(lk[p], d)]
ShiftWake(w, d) == [c \in Callers |-> Back(w[c], d)]

\* The end of the reservation of p as the running revision sees it.
Expiry(p) == IF impl = "lock" THEN lockedProxies[p] ELSE UnlockedAt(proxyStats, p)

\* Time passes: one millisecond after an operation or after the end of a
\* cooldown, or up to the end of a cooldown.
Delays ==
  LET eventTimes == {proxyStats[p].lastUsed : p \in Proxies} \cup {Expiry(p) : p \in Proxies}
  IN  (IF now \in eventTimes THEN {1} ELSE {})
        \cup {Expiry(p) - now : p \in {q \in Proxies : Expiry(q) > now}}

Elapse(d) ==
  /\ proxyStats' = ShiftStats(proxyStats, d)
  /\ lockedProxies' = ShiftLock(lockedProxies, d)
  /\ wakeAt' = ShiftWake(wakeAt, d)
  /\ ev' = Event("tick", null, {})
  /\ UNCHANGED <<pc, candidate, streak>>

\* How long a sleeping call still has to wait, and how late its timer may
\* fire: setTimeout never fires early and Date.now() counts whole milliseconds.
Overdue(c) == Max(0, wakeAt[c] - now)
Late == {0, 1}

\* "wait": the timer of sleep(minRemaining) fires and return getNextProxy()
\* runs getNextProxy again
WakeWait(c, ret, d) ==
  /\ impl = "wait"
  /\ pc[c] = "sleeping"
  /\ d \in {Overdue(c) + late : late \in Late}
  /\ LET st == ShiftStats(proxyStats, d)
     IN  /\ ChooseOrSleep(st, c, ret)
         /\ wakeAt' = [ShiftWake(wakeAt, d) EXCEPT
                         ![c] = IF ret = pending THEN SleepUntil(st) ELSE 0]
  /\ UNCHANGED <<lockedProxies, streak>>

\* "candidate": the timer fires and the rest of getNextProxy runs
WakeCandidate(c, ret, d) ==
  /\ impl = "candidate"
  /\ pc[c] = "sleeping"
  /\ d \in {Overdue(c) + late : late \in Late}
  /\ LET st == ShiftStats(proxyStats, d)
         unlocked == UnlockedProxies(st, lockedProxies, now)
     IN  /\ IF unlocked = {}
              THEN /\ ret = candidate[c]
                   /\ proxyStats' = MarkUsed(reportProxyFailure(st, ret, now), ret, now)
                   /\ streak' = StreakAfterFailure(ret)
              ELSE /\ ret \in unlocked
                   /\ proxyStats' = MarkUsed(st, ret, now)
                   /\ streak' = streak
         /\ ev' = Event("getNextProxy", ret, Free(st))
         /\ wakeAt' = [ShiftWake(wakeAt, d) EXCEPT ![c] = 0]
  /\ candidate' = [candidate EXCEPT ![c] = null]
  /\ pc' = [pc EXCEPT ![c] = "idle"]
  /\ UNCHANGED lockedProxies

\* How long after the last operation the interval timer can fire: shortly
\* after it, or a whole interval after it.
DecayDelays == {1, DECAY_INTERVAL_MS}

\* setInterval(decayProxyStats, DECAY_INTERVAL_MS): the timer fires d after
\* the last operation
DecayTimer(d) ==
  /\ impl = "wait"
  /\ LET st == ShiftStats(proxyStats, d)
     IN  /\ proxyStats' = decayProxyStats(st)
         /\ streak' = [p \in Proxies |-> IF Decays(st[p]) THEN -1 ELSE streak[p]]
  /\ wakeAt' = ShiftWake(wakeAt, d)
  /\ ev' = Event("decayProxyStats", null, {})
  /\ UNCHANGED <<lockedProxies, pc, candidate>>

----------------------------------------------------------------------------
(* Proxy URLs: strings are sequences of characters *)

\* The characters encodeURIComponent leaves alone; every other character is
\* escaped as % and two hexadecimal digits.
Unreserved == {"u", "s", "h", "t", "p", "0", "2", "3", "4", "5", "A", "F"}

Escape(c) ==
  IF c \in Unreserved THEN <<c>>
  ELSE IF c = "%" THEN <<"%", "2", "5">>
  ELSE IF c = "@" THEN <<"%", "4", "0">>
  ELSE IF c = ":" THEN <<"%", "3", "A">>
  ELSE <<"%", "2", "F">>

RECURSIVE encodeURIComponent(_)
encodeURIComponent(s) ==
  IF s = <<>> THEN <<>> ELSE Escape(Head(s)) \o encodeURIComponent(Tail(s))

\* s.slice(from), s.slice(from, to) with 0-based indices as in the code
SliceFrom(s, from) == SubSeq(s, from + 1, Len(s))
Slice(s, from, to) == SubSeq(s, from + 1, to)

StartsAt(s, t, i) == i + Len(t) <= Len(s) /\ Slice(s, i, i + Len(t)) = t

\* s.indexOf(t), s.lastIndexOf(t): -1 when t does not occur
indexOf(s, t) ==
  LET at == {i \in 0..Len(s) : StartsAt(s, t, i)}
  IN  IF at = {} THEN -1 ELSE CHOOSE i \in at : \A j \in at : i <= j

lastIndexOf(s, t) ==
  LET at == {i \in 0..Len(s) : StartsAt(s, t, i)}
  IN  IF at = {} THEN -1 ELSE CHOOSE i \in at : \A j \in at : i >= j

protocolSeparator == <<":", "/", "/">>

\* fixProxyUrl(proxyUrl)
fixProxyUrl(proxyUrl) ==
  LET url == IF indexOf(proxyUrl, protocolSeparator) = -1
               THEN <<"h", "t", "t", "p", ":", "/", "/">> \o proxyUrl
               ELSE proxyUrl
      protocolEnd == indexOf(url, protocolSeparator) + Len(protocolSeparator)
      protocol == Slice(url, 0, protocolEnd)
      remainder == SliceFrom(url, protocolEnd)
      atIndex == lastIndexOf(remainder, <<"@">>)
      credentials == Slice(remainder, 0, atIndex)
      hostPart == SliceFrom(remainder, atIndex + 1)
      colonIndex == indexOf(credentials, <<":">>)
  IN  IF atIndex = -1 THEN url
      ELSE IF colonIndex = -1
        THEN protocol \o encodeURIComponent(credentials) \o <<"@">> \o hostPart
        ELSE protocol \o encodeURIComponent(Slice(credentials, 0, colonIndex))
               \o <<":">> \o encodeURIComponent(SliceFrom(credentials, colonIndex + 1))
               \o <<"@">> \o hostPart

\* The lines of proxies.txt the model draws from: with or without a
\* protocol, then up to MaxLine characters.
LineChars == {"u", ":", "@", "%"}
Protocols == {<<>>, <<"s">> \o protocolSeparator}
Bodies == UNION {[1..n -> LineChars] : n \in 1..MaxLine}
ProxyLines == {pr \o b : pr \in Protocols, b \in Bodies}

----------------------------------------------------------------------------
(* The stats file *)

\* The keys of proxyStats are proxy URLs.  The model names them: the first
\* name stands for the proxy of the list, fixProxyUrl(line), and each
\* further name for fixProxyUrl of the text before it.
KeyNames == <<"p1", "p1+", "p1++", "p1+++", "p1++++", "p1+++++">>

RECURSIVE FixedTimes(_, _)
FixedTimes(l, n) == IF n = 0 THEN l ELSE fixProxyUrl(FixedTimes(l, n - 1))

KeyIndex(k) == CHOOSE i \in 1..Len(KeyNames) : KeyNames[i] = k

KeyText(l, k) == FixedTimes(l, KeyIndex(k))

\* The name of fixProxyUrl(KeyText(l, k)): k itself if fixProxyUrl leaves the
\* text as it is, the next name if not.  An escape makes a text longer, so
\* a changed text is none of the texts before it.
RefixedKey(l, k) ==
  IF fixProxyUrl(KeyText(l, k)) = KeyText(l, k) THEN k ELSE KeyNames[KeyIndex(k) + 1]

HasName(l, k) ==
  fixProxyUrl(KeyText(l, k)) = KeyText(l, k) \/ KeyIndex(k) < Len(KeyNames)

\* A file: absent, the whole text of JSON.stringify(data), or a text that
\* was cut short, which JSON.parse rejects.
noFile == [kind |-> "absent", data |-> <<>>]
Document(st) == [kind |-> "whole", data |-> st]
CutDocument == [kind |-> "partial", data |-> <<>>]

\* A file that fs.readFileSync cannot read, or whose text is not JSON.
Unreadable == [kind |-> "unreadable", data |-> <<>>]

\* The files after d milliseconds have passed.
Aged(f, d) == [f EXCEPT !.data = ShiftStats(@, d)]

\* "lock" loadProxyStats: every key goes through fixProxyUrl again.  The
\* stats were written by saveProxyStats, so Number(stats.lastUsed) is
\* stats.lastUsed.
RefixedStats(l, data) ==
  LET renamed == {RefixedKey(l, k) : k \in DOMAIN data}
  IN  [n \in renamed |-> data[CHOOSE k \in DOMAIN data : RefixedKey(l, k) = n]]

\* "wait", "candidate" loadProxyStats: a cooldown below the default is
\* raised to the default.
UpgradedStats(data) ==
  [k \in DOMAIN data |->
     IF data[k].cooldown < DEFAULT_LOCK_DURATION_MS
       THEN [data[k] EXCEPT !.cooldown = DEFAULT_LOCK_DURATION_MS]
       ELSE data[k]]

\* loadProxyStats(): proxyStats afterwards; a missing file and a text that
\* JSON.parse rejects both leave {}
loadProxyStats(rev, l, f) ==
  IF f.kind # "whole" THEN <<>>
  ELSE IF rev = "lock" THEN RefixedStats(l, f.data)
  ELSE UpgradedStats(f.data)

\* getStatsForProxy creates the entry of a proxy on first access; the model
\* creates the entries of the list at once.
WithDefaults(st) ==
  [k \in DOMAIN st \cup Proxies |-> IF k \in DOMAIN st THEN st[k] ELSE getStatsForProxy]

\* An error thrown inside saveProxyStats that leaves it.
Rethrown(err) == err

\* An error of loadProxies or loadProxyStats that ends the module load.
Fatal(err) == err

\* loadProxies, loadProxyStats: catch (err) { logger.error(..); .. = empty },
\* nothing leaves them
loadError(err) == "none"

\* saveProxyStats: catch (err) { logger.error(..) }, nothing leaves it
saveError(err) == "none"

\* A catch block that empties proxyStats, as the one of loadProxyStats does.
StatsEmptied(st) == [k \in DOMAIN st |-> getStatsForProxy]

\* proxyStats after the catch block of saveProxyStats, which assigns nothing
statsAfterSaveError(st) == st

noStore ==
  /\ line = <<"u">>
  /\ file = noFile
  /\ tempFile = noFile
  /\ saving = "idle"
  /\ raised = "none"
  /\ lastSave = "none"
  /\ saves = 0

----------------------------------------------------------------------------
(* The pool on its own: callers of getNextProxy, sessions that report, time *)

Returns == Proxies \cup {null, pending}

idleLaunch ==
  [pc |-> "off", proxyIndicator |-> null, attempt |-> 0, proxyAttempt |-> 0,
   selectedProxy |-> null, working |-> FALSE, config |-> null]

\* No session runs: the locals of runPuppeteer and performLogin.
noSession ==
  [pc |-> "off", runner |-> "none", handler |-> "none", responses |-> 0,
   foundCode |-> null, bannedStatus |-> FALSE, impervaBlocked |-> FALSE,
   loginResult |-> [type |-> "undefined", value |-> "undefined"],
   returned |-> [error |-> "none"],
   seen |-> {}]   \* history: the codes in the URLs of the responses and in the final URL

\* No attempt is tracked and the handler of /login is not running.
noFlights == <<>>
noApi == <<>>

noLogin ==
  /\ session = noSession
  /\ flights = noFlights
  /\ api = noApi
  /\ orch = "none"
  /\ launcher = "none"
  /\ net = "none"
  /\ proxy = null
  /\ opc = "off"
  /\ launch = idleLaunch
  /\ result = "none"
  /\ newProxy = null
  /\ promised = null
  /\ runs = 0
  /\ acquires = 0
  /\ attempts = <<>>
  /\ onlyTimeouts = TRUE
  /\ expired = FALSE

freshPool ==
  /\ proxyStats = [p \in Proxies |-> getStatsForProxy]
  /\ lockedProxies = [p \in Proxies |-> 0]
  /\ pc = [c \in Callers |-> "idle"]
  /\ wakeAt = [c \in Callers |-> 0]
  /\ candidate = [c \in Callers |-> null]
  /\ ev = Event("init", null, {})
  /\ streak = [p \in Proxies |-> 0]
  /\ grants = 0
  /\ held = [p \in Proxies |-> 0]
  /\ ticks = 0

\* Two calls race for a pool of one proxy; a pool of two proxies serves one
\* call at a time.
Racing == IF Len(proxyList) = 1 THEN Callers ELSE {"c1"}

Init ==
  /\ impl \in Impls
  /\ proxyList \in ProxyLists
  /\ freshPool
  /\ noLogin
  /\ noStore

\* A proxy handed out is counted, and held until its session reports.
Granting(ret) ==
  IF ret \in Proxies
    THEN /\ grants < Len(proxyList) + MaxUse
         /\ grants' = grants + 1
         /\ held' = [held EXCEPT ![ret] = @ + 1]
    ELSE UNCHANGED <<grants, held>>

\* A passage of time is counted.
Passing(d) ==
  IF d > 0
    THEN /\ ticks < MaxTicks
         /\ ticks' = ticks + 1
    ELSE UNCHANGED ticks

\* The delays a timer can fire after.
Waits == {Overdue(c) + late : c \in Callers, late \in Late}

CallLock(c) ==
  \E ret \in Returns :
    GetNextProxyLock(c, ret) /\ Granting(ret) /\ UNCHANGED <<ticks, setup, login>>

CallAsync(c) ==
  \E ret \in Returns :
    GetNextProxyCall(c, ret) /\ Granting(ret) /\ UNCHANGED <<ticks, setup, login>>

TimerWait(c) ==
  \E ret \in Returns, d \in Waits :
    WakeWait(c, ret, d) /\ Granting(ret) /\ Passing(d) /\ UNCHANGED <<setup, login>>

TimerCandidate(c) ==
  \E ret \in Returns, d \in Waits :
    WakeCandidate(c, ret, d) /\ Granting(ret) /\ Passing(d) /\ UNCHANGED <<setup, login>>

\* A session that was handed p reports how its attempt through p went.
SessionFailed(p) ==
  /\ held[p] > 0
  /\ held' = [held EXCEPT ![p] = @ - 1]
  /\ ReportProxyFailure(p)
  /\ UNCHANGED <<grants, ticks, setup, login>>

SessionSucceeded(p) ==
  /\ held[p] > 0
  /\ held' = [held EXCEPT ![p] = @ - 1]
  /\ ReportProxySuccess(p)
  /\ UNCHANGED <<grants, ticks, setup, login>>

Tick ==
  /\ \E d \in Delays : Elapse(d) /\ Passing(d)
  /\ UNCHANGED <<grants, held, setup, login>>

Next ==
  \/ \E c \in Racing : CallLock(c)
  \/ \E c \in Racing : CallAsync(c)
  \/ \E c \in Racing : TimerWait(c)
  \/ \E c \in Racing : TimerCandidate(c)
  \/ \E p \in Proxies : SessionFailed(p)
  \/ \E p \in Proxies : SessionSucceeded(p)
  \/ Tick

Spec == Init /\ [][Next]_vars

----------------------------------------------------------------------------
(* The backoff of one proxy: reports in any order, and the decay timer *)

FailureReported ==
  /\ proxyStats[proxyList[1]].failCount < MaxFails
  /\ ReportProxyFailure(proxyList[1])
  /\ UNCHANGED <<budget, setup, login>>

SuccessReported ==
  /\ proxyStats[proxyList[1]].successCount < MaxSuccess
  /\ ReportProxySuccess(proxyList[1])
  /\ UNCHANGED <<budget, setup, login>>

\* Whole intervals pass freely, a firing shortly after an operation is counted.
DecayFired ==
  \E d \in DecayDelays :
    /\ DecayTimer(d)
    /\ IF d < DECAY_INTERVAL_MS
         THEN ticks < MaxTicks /\ ticks' = ticks + 1
         ELSE UNCHANGED ticks
    /\ UNCHANGED <<grants, held, setup, login>>

NextBackoff ==
  \/ FailureReported
  \/ SuccessReported
  \/ DecayFired

SpecBackoff == Init /\ [][NextBackoff]_vars

\* setInterval(decayProxyStats, DECAY_INTERVAL_MS) fires again and again.
FairBackoff == SpecBackoff /\ WF_vars(DecayFired)

----------------------------------------------------------------------------
(* One login: launchAndConnectToBrowser *)

maxAttemptsFive == 5
maxAttemptsThree == 3
maxProxyAttempts == 5

\* A launcher whose loop makes one attempt more than maxAttempts.
maxAttemptsAndOne(l) == IF l = "five" THEN maxAttemptsFive + 1 ELSE maxAttemptsThree + 1

maxAttempts(l) == IF l = "five" THEN maxAttemptsFive ELSE maxAttemptsThree

\* What runPuppeteer returns: "token" for { token }, else the error.
runPuppeteer(l) ==
  IF l = "five"
    THEN {"token", "CAPTCHA_BANNED", "TIMEOUT", "IP_BLOCKED", "ACCOUNT_BANNED",
          "INVALID_CREDENTIALS", "ACCOUNT_DISABLED", "LOGIN_FAILED", "CRITICAL_ERROR"}
    ELSE {"token", "NO_RESPONSE", "TIMEOUT", "IP_BLOCKED", "ACCOUNT_BANNED",
          "INVALID_CREDENTIALS", "ACCOUNT_DISABLED", "LOGIN_FAILED", "CRITICAL_ERROR"}

\* What Browser.loginFlow returns: the outcomes of the session runner.
loginFlow ==
  {"token", "IP_BLOCKED", "NAVIGATION_TIMEOUT", "NO_RESPONSE", "ACCOUNT_BANNED",
   "INVALID_CREDENTIALS", "ACCOUNT_DISABLED", "LOGIN_FAILED"}

\* A launcher that goes on to its next attempt after every error.
RetriesEveryError(l, error) == TRUE

\* The errors of a page.goto that has timed out: "TIMEOUT" in the runPuppeteer
\* of the launchers, "NAVIGATION_TIMEOUT" in the one part_015 retries.
NavigationTimeouts == {"TIMEOUT", "NAVIGATION_TIMEOUT"}

\* The errors after which launchAndConnectToBrowser goes on to its next attempt.
RetriesLaunch(l, error) ==
  IF l = "five"
    THEN error \in {"CAPTCHA_BANNED", "IP_BLOCKED", "TIMEOUT"}
    ELSE error \in {"CAPTCHA_BANNED", "IP_BLOCKED", "TIMEOUT", "LOGIN_FAILED", "NO_RESPONSE"}

\* The errors after which part_015's loginWithRetry switches to another proxy.
RetriesLogin(error) == error \in {"IP_BLOCKED", "NAVIGATION_TIMEOUT"}

\* The last two entries of the attempt log.
LastTwo(s) == IF Len(s) > 2 THEN SubSeq(s, Len(s) - 1, Len(s)) ELSE s

Attempted(p, outcome) == LastTwo(Append(attempts, [proxy |-> p, outcome |-> outcome]))

StartLaunch(proxyIndicator) ==
  [idleLaunch EXCEPT !.pc = "top", !.proxyIndicator = proxyIndicator]

\* getNextProxy of the running revision, and the timer of its sleep
GetNextProxy(c, ret) == GetNextProxyLock(c, ret) \/ GetNextProxyCall(c, ret)
Timer(c, ret) ==
  LET d == Overdue(c) + 1
  IN  WakeWait(c, ret, d) \/ WakeCandidate(c, ret, d)

\* config.proxy once the choice of a proxy has ended
ConfigProxy(selectedProxy, working) ==
  IF launcher = "five"
    THEN IF working THEN selectedProxy ELSE null
    ELSE selectedProxy

\* The loop choosing a proxy, after getNextProxy has returned ret and
\* isProxyWorking has returned working
SelectStep(l, ret, working) ==
  IF ret = null
    THEN [l EXCEPT !.selectedProxy = null, !.pc = "run", !.config = ConfigProxy(null, FALSE)]
    ELSE IF working \/ l.proxyAttempt >= maxProxyAttempts
           THEN [l EXCEPT !.selectedProxy = ret, !.working = working, !.pc = "run",
                          !.config = ConfigProxy(ret, working)]
           ELSE [l EXCEPT !.selectedProxy = ret, !.working = FALSE, !.pc = "select"]

\* while (attempt < maxAttempts): attempt++ and the source of this attempt's proxy
LaunchAttempt ==
  /\ launch.pc = "top"
  /\ LET attempt == launch.attempt + 1
         given == launch.proxyIndicator
         choose == [launch EXCEPT !.attempt = attempt, !.selectedProxy = null,
                                  !.working = FALSE, !.proxyAttempt = 0, !.pc = "select"]
     IN  IF launcher = "five"
           THEN launch' = IF given \in Proxies
                            THEN [launch EXCEPT !.attempt = attempt, !.config = given,
                                                !.pc = "run"]
                            ELSE choose
           ELSE IF attempt = 1 /\ given # null
                  THEN /\ given = "promise" => promised # pending
                       /\ launch' =
                            LET selectedProxy == IF given = "promise" THEN promised ELSE given
                            IN  [launch EXCEPT !.attempt = attempt,
                                               !.selectedProxy = selectedProxy,
                                               !.config = selectedProxy, !.pc = "run"]
                  ELSE launch' = choose
  /\ UNCHANGED <<pool, budget, setup, opc, result, newProxy, promised, runs, acquires, attempts, onlyTimeouts>>

\* proxyAttempt++; selectedProxy = await getNextProxy(); working = await isProxyWorking(..)
LaunchSelect ==
  /\ launch.pc = "select"
  /\ acquires < MaxAcquires
  /\ \E ret \in Returns :
       /\ GetNextProxy("c1", ret)
       /\ LET l == [launch EXCEPT !.proxyAttempt = @ + 1]
          IN  IF ret = pending
                THEN launch' = [l EXCEPT !.pc = "awaitProxy"]
                ELSE \E working \in BOOLEAN : launch' = SelectStep(l, ret, working)
  /\ acquires' = acquires + 1
  /\ UNCHANGED <<budget, setup, opc, result, newProxy, promised, runs, attempts, onlyTimeouts>>

\* the awaited getNextProxy returns after its sleep
LaunchSelectTimer ==
  /\ launch.pc = "awaitProxy"
  /\ \E ret \in Returns :
       /\ Timer("c1", ret)
       /\ IF ret = pending
            THEN UNCHANGED launch
            ELSE \E working \in BOOLEAN : launch' = SelectStep(launch, ret, working)
  /\ UNCHANGED <<budget, setup, opc, result, newProxy, promised, runs, acquires, attempts, onlyTimeouts>>

\* result = await runPuppeteer(..) and what the loop does with it
RunPuppeteer ==
  /\ launch.pc = "run"
  /\ \E outcome \in runPuppeteer(launcher) :
       /\ result' = outcome
       /\ attempts' = Attempted(launch.config, outcome)
       /\ onlyTimeouts' = (onlyTimeouts /\ outcome \in NavigationTimeouts)
       /\ launch' = [launch EXCEPT
                       !.pc = IF /\ outcome # "token"
                                 /\ RetriesLaunch(launcher, outcome)
                                 /\ launch.attempt < maxAttempts(launcher)
                                THEN "top" ELSE "returned"]
  /\ runs' = runs + 1
  /\ UNCHANGED <<pool, budget, setup, opc, newProxy, promised, acquires>>

----------------------------------------------------------------------------
(* One login: loginWithRetry of core/login_with_retry.js *)

Nets == {"changes", "static", "failing", "down"}

Call ==
  /\ orch = "retry"
  /\ opc = "call"
  /\ opc' = "launch1"
  /\ launch' = StartLaunch(proxy)
  /\ UNCHANGED <<pool, budget, setup, result, newProxy, promised, runs, acquires, attempts, onlyTimeouts>>

\* the first launch has returned something else than IP_BLOCKED
ReturnFirst ==
  /\ orch = "retry"
  /\ opc = "launch1"
  /\ launch.pc = "returned"
  /\ result # "IP_BLOCKED"
  /\ opc' = "done"
  /\ launch' = idleLaunch
  /\ UNCHANGED <<pool, budget, setup, result, newProxy, promised, runs, acquires, attempts, onlyTimeouts>>

\* Case A: previousIp = await getCurrentIp(), which throws when the lookup is down
LocalIpBlocked ==
  /\ orch = "retry"
  /\ opc = "launch1"
  /\ launch.pc = "returned"
  /\ result = "IP_BLOCKED"
  /\ proxy = null
  /\ opc' = IF net = "down" THEN "done" ELSE "waitForNewIp"
  /\ launch' = idleLaunch
  /\ UNCHANGED <<pool, budget, setup, result, newProxy, promised, runs, acquires, attempts, onlyTimeouts>>

\* waitForNewIp: await setTimeoutPromise(checkIntervalMs)
PollSleep ==
  /\ opc = "waitForNewIp"
  /\ opc' = "getCurrentIp"
  /\ UNCHANGED <<pool, budget, setup, launch, result, newProxy, promised, runs, acquires, attempts, onlyTimeouts>>

\* waitForNewIp: currentIp = await getCurrentIp(), and the test of the loop
PollLookup ==
  /\ opc = "getCurrentIp"
  /\ IF net = "changes"
       THEN /\ opc' = "launch2"
            /\ launch' = StartLaunch(null)
       ELSE /\ opc' = "waitForNewIp"
            /\ UNCHANGED launch
  /\ UNCHANGED <<pool, budget, setup, result, newProxy, promised, runs, acquires, attempts, onlyTimeouts>>

\* Case B: newProxy = getNextProxy(), not awaited
ProxyBlocked ==
  /\ orch = "retry"
  /\ opc = "launch1"
  /\ launch.pc = "returned"
  /\ result = "IP_BLOCKED"
  /\ proxy # null
  /\ acquires < MaxAcquires
  /\ \E ret \in Returns :
       /\ GetNextProxy("c2", ret)
       /\ IF impl = "lock"
            THEN /\ newProxy' = ret
                 /\ promised' = promised
                 /\ opc' = IF ret = null THEN "done" ELSE "launch2"
                 /\ launch' = IF ret = null THEN idleLaunch ELSE StartLaunch(ret)
            ELSE /\ newProxy' = "promise"
                 /\ promised' = ret
                 /\ opc' = "launch2"
                 /\ launch' = StartLaunch("promise")
  /\ acquires' = acquires + 1
  /\ UNCHANGED <<budget, setup, result, runs, attempts, onlyTimeouts>>

\* the getNextProxy nobody awaited goes on after its sleep
PromiseSettles ==
  /\ promised = pending
  /\ \E ret \in Returns :
       /\ Timer("c2", ret)
       /\ promised' = ret
  /\ UNCHANGED <<budget, setup, opc, launch, result, newProxy, runs, acquires, attempts, onlyTimeouts>>

ReturnSecond ==
  /\ orch = "retry"
  /\ opc = "launch2"
  /\ launch.pc = "returned"
  /\ opc' = "done"
  /\ launch' = idleLaunch
  /\ UNCHANGED <<pool, budget, setup, result, newProxy, promised, runs, acquires, attempts, onlyTimeouts>>

----------------------------------------------------------------------------
(* One login: loginWithRetry of unnamed/part_015 *)

\* result.token ? reportProxySuccess(p) : reportProxyFailure(p)
ReportResult(p, outcome) ==
  IF outcome = "token" THEN ReportProxySuccess(p) ELSE ReportProxyFailure(p)

\* Attempt #1 and its report
AttemptOne ==
  /\ orch = "report"
  /\ opc = "call"
  /\ \E outcome \in loginFlow :
       /\ result' = outcome
       /\ attempts' = Attempted(proxy, outcome)
       /\ onlyTimeouts' = (onlyTimeouts /\ outcome \in NavigationTimeouts)
       /\ IF proxy # null THEN ReportResult(proxy, outcome) ELSE UNCHANGED pool
       /\ opc' = IF RetriesLogin(outcome) THEN "getNextProxy" ELSE "done"
  /\ runs' = runs + 1
  /\ UNCHANGED <<budget, setup, launch, newProxy, promised, acquires>>

\* newProxy = await getNextProxy() has returned ret
Switched(ret) ==
  /\ opc' = IF ret = pending THEN "awaitProxy" ELSE IF ret = null THEN "done" ELSE "attempt2"
  /\ newProxy' = IF ret = pending THEN newProxy ELSE ret

SwitchProxy ==
  /\ orch = "report"
  /\ opc = "getNextProxy"
  /\ acquires < MaxAcquires
  /\ \E ret \in Returns : GetNextProxy("c1", ret) /\ Switched(ret)
  /\ acquires' = acquires + 1
  /\ UNCHANGED <<budget, setup, launch, result, promised, runs, attempts, onlyTimeouts>>

SwitchProxyTimer ==
  /\ orch = "report"
  /\ opc = "awaitProxy"
  /\ \E ret \in Returns : Timer("c1", ret) /\ Switched(ret)
  /\ UNCHANGED <<budget, setup, launch, result, promised, runs, acquires, attempts, onlyTimeouts>>

\* Attempt #2 and its report
AttemptTwo ==
  /\ orch = "report"
  /\ opc = "attempt2"
  /\ \E outcome \in loginFlow :
       /\ result' = outcome
       /\ attempts' = Attempted(newProxy, outcome)
       /\ onlyTimeouts' = (onlyTimeouts /\ outcome \in NavigationTimeouts)
       /\ ReportResult(newProxy, outcome)
  /\ opc' = "done"
  /\ runs' = runs + 1
  /\ UNCHANGED <<budget, setup, launch, newProxy, promised, acquires>>

----------------------------------------------------------------------------
(* The login's specification *)

\* The stats and the lock of a proxy getNextProxy has just handed out.
usedStats == [getStatsForProxy EXCEPT !.useCount = IF impl = "lock" THEN 0 ELSE 1,
                                      !.lastUsed = now]

\* The proxy of the request comes from getNextProxy (api/login.js), and the
\* other requests in flight hold all the other proxies or none of them.
InitRetry ==
  /\ impl \in Impls
  /\ proxyList = <<"p1", "p2">>
  /\ orch \in {"retry", "report"}
  /\ launcher \in IF orch = "retry" THEN {"five", "three"} ELSE {"none"}
  /\ proxy \in Proxies \cup {null}
  /\ net \in IF orch = "retry" /\ proxy = null THEN Nets ELSE {"none"}
  /\ \E busy \in {{}, Proxies} :
       /\ proxyStats = [p \in Proxies |-> IF p \in busy \cup {proxy}
                                            THEN usedStats ELSE getStatsForProxy]
       /\ lockedProxies = [p \in Proxies |-> IF impl = "lock" /\ p \in busy \cup {proxy}
                                               THEN now + DEFAULT_LOCK_DURATION_MS ELSE 0]
  /\ pc = [c \in Callers |-> "idle"]
  /\ wakeAt = [c \in Callers |-> 0]
  /\ candidate = [c \in Callers |-> null]
  /\ ev = Event("init", null, {})
  /\ streak = [p \in Proxies |-> 0]
  /\ grants = 0
  /\ held = [p \in Proxies |-> 0]
  /\ ticks = 0
  /\ noStore
  /\ session = noSession
  /\ flights = noFlights
  /\ api = noApi
  /\ opc = "call"
  /\ launch = idleLaunch
  /\ result = "none"
  /\ newProxy = null
  /\ promised = null
  /\ runs = 0
  /\ acquires = 0
  /\ attempts = <<>>
  /\ onlyTimeouts = TRUE
  /\ expired = FALSE

LoginNext ==
  \/ Call
  \/ LaunchAttempt
  \/ LaunchSelect
  \/ LaunchSelectTimer
  \/ RunPuppeteer
  \/ ReturnFirst
  \/ LocalIpBlocked
  \/ PollSleep
  \/ PollLookup
  \/ ProxyBlocked
  \/ PromiseSettles
  \/ ReturnSecond
  \/ AttemptOne
  \/ SwitchProxy
  \/ SwitchProxyTimer
  \/ AttemptTwo

SpecRetry == InitRetry /\ [][LoginNext]_vars

\* The event loop runs every timer and continuation that is ready.
FairRetry == SpecRetry /\ WF_vars(LoginNext)

----------------------------------------------------------------------------
(* Properties of the reports made for a login *)

CredentialOutcomes == {"INVALID_CREDENTIALS", "ACCOUNT_BANNED", "ACCOUNT_DISABLED"}

\* The attempt that has run last.
LastAttempt == attempts[Len(attempts)]

\* A step of part_015's loginWithRetry in which an attempt through a proxy
\* ends with one of the credential outcomes.
CredentialAttempt ==
  /\ orch = "report"
  /\ runs' = runs + 1
  /\ attempts'[Len(attempts')].proxy \in Proxies
  /\ attempts'[Len(attempts')].outcome \in CredentialOutcomes

ReportedAsSuccess(p) ==
  /\ proxyStats'[p].successCount = proxyStats[p].successCount + 1
  /\ proxyStats'[p].cooldown = DEFAULT_LOCK_DURATION_MS
  /\ proxyStats'[p].failCount = proxyStats[p].failCount
  /\ proxyStats'[p].cooldown <= proxyStats[p].cooldown

(* C1: every attempt that ran through a proxy R and ended with              *)
(* INVALID_CREDENTIALS, ACCOUNT_BANNED or ACCOUNT_DISABLED is reported to   *)
(* the pool as a success of R: successCount goes up by one, the cooldown is *)
(* the default afterwards, failCount and the cooldown do not go up.         *)
C1_CredentialOutcomeReportedAsSuccess ==
  [][CredentialAttempt => ReportedAsSuccess(attempts'[Len(attempts')].proxy)]_vars

\* part_015 has reported a failure of the request's proxy for wrong credentials.
C1_PenalisedForCredentials ==
  /\ orch = "report"
  /\ opc = "done"
  /\ runs = 1
  /\ proxy \in Proxies
  /\ LastAttempt.outcome \in CredentialOutcomes
  /\ proxyStats[proxy].failCount = 1
  /\ proxyStats[proxy].cooldown = DEFAULT_LOCK_DURATION_MS * FAILURE_MULTIPLIER
  /\ proxyStats[proxy].successCount = 0

----------------------------------------------------------------------------
(* Properties of getNextProxy *)

\* getNextProxy has just returned a proxy.
Returned == ev.op = "getNextProxy" /\ ev.proxy \in Proxies

(* C2: with several calls of getNextProxy in flight, sleeping ones          *)
(* included, a proxy that was handed out before is never handed out again   *)
(* while it is inside its cooldown window, now < lastUsed + cooldown.       *)
C2_NoHandOutInsideWindow ==
  (/\ impl \in {"wait", "candidate"}
   /\ Returned
   /\ proxyStats[ev.proxy].useCount >= 2) => ev.proxy \in ev.free

\* "candidate" has handed a proxy out a second time inside its window.
C2_HandedOutInsideWindow ==
  /\ impl = "candidate"
  /\ Returned
  /\ proxyStats[ev.proxy].useCount >= 2
  /\ ev.proxy \notin ev.free

----------------------------------------------------------------------------
(* Properties of the number of attempts *)

(* C3: for one login the session runner is invoked at most maxAttempts      *)
(* times, whatever it returns, counting the attempts of loginWithRetry and  *)
(* of launchAndConnectToBrowser together.                                   *)
C3_AttemptsWithinMax == orch = "retry" => runs <= maxAttempts(launcher)

\* Both launches of loginWithRetry have used up the launcher's attempts.
C3_TwiceMaxAttempts ==
  /\ orch = "retry"
  /\ opc = "done"
  /\ runs = 2 * maxAttempts(launcher)

(* C4: every call of loginWithRetry eventually returns, whatever the        *)
(* session runner returns and whatever the IP lookup and the pool do.  A    *)
(* login whose calls of getNextProxy have reached MaxAcquires is left out.  *)
C4_EveryCallReturns == <>(opc = "done" \/ acquires = MaxAcquires)

\* waitForNewIp is polling an IP that does not change or cannot be looked up.
C4_PollingForNewIp ==
  /\ opc = "waitForNewIp"
  /\ net \in {"static", "failing"}
  /\ result = "IP_BLOCKED"

----------------------------------------------------------------------------
(* Properties of the backoff *)

RECURSIVE Pow(_, _)
Pow(b, n) == IF n = 0 THEN 1 ELSE b * Pow(b, n - 1)

(* C5: after n failure reports in a row on a proxy, with no success report  *)
(* and no decay in between, its cooldown is                                 *)
(* min(DEFAULT_LOCK_DURATION_MS * FAILURE_MULTIPLIER^n,                     *)
(* MAX_LOCK_DURATION_MS).                                                   *)
C5_BackoffAfterFailures ==
  \A p \in Proxies :
    streak[p] >= 0 =>
      proxyStats[p].cooldown =
        Min(DEFAULT_LOCK_DURATION_MS * Pow(FAILURE_MULTIPLIER, streak[p]),
            MAX_LOCK_DURATION_MS)

\* Failures in a row have taken the cooldown to the cap.
C5_CappedAfterFailures ==
  \E p \in Proxies :
    /\ streak[p] > 0
    /\ ev = Event("reportProxyFailure", p, {})
    /\ DEFAULT_LOCK_DURATION_MS * Pow(FAILURE_MULTIPLIER, streak[p]) > MAX_LOCK_DURATION_MS
    /\ proxyStats[p].cooldown = MAX_LOCK_DURATION_MS

\* reportProxySuccess(p) is the operation that has just run.
SuccessJustReported(p) == ev = Event("reportProxySuccess", p, {})

\* getNextProxy, called now, would find p unlocked.
AvailableNow(p) == p \in UnlockedProxies(proxyStats, lockedProxies, now)

C7_AvailableIffWindowOver ==
  /\ Returned => ev.proxy \in ev.free
  /\ (ev.op = "getNextProxy" /\ ev.proxy = null) => ev.free = {}
  /\ ev.op = "sleep" => ev.free = {}

\* getNextProxy has gone to sleep at the very end of a proxy's window.
C7_SleepsAtEndOfWindow ==
  /\ impl = "wait"
  /\ ev.op = "sleep"
  /\ ev.free # {}

\* A pool of one proxy on which nothing has been reported.
OneProxyNoReports ==
  /\ Len(proxyList) = 1
  /\ impl \in {"lock", "wait"}
  /\ \A p \in Proxies : proxyStats[p].successCount = 0 /\ proxyStats[p].failCount = 0

\* The window of some proxy ends on this very millisecond.
AtEndOfWindow == \E p \in Proxies : UnlockedAt(proxyStats, p) = now

----------------------------------------------------------------------------
(* Properties of one login *)

(* C9: when the first attempt runs through R1 and ends with IP_BLOCKED and  *)
(* the second runs through R2 and ends with a token, the login returns the  *)
(* token after exactly two attempts, failCount of R1 and successCount of R2 *)
(* have gone up by one, successCount of R1 and failCount of R2 have not     *)
(* changed.                                                                 *)
C9_ScenarioB ==
  (/\ opc = "done"
   /\ runs = 2
   /\ Len(attempts) = 2
   /\ attempts[1].proxy \in Proxies
   /\ attempts[2].proxy \in Proxies \ {attempts[1].proxy}
   /\ attempts[1].outcome = "IP_BLOCKED"
   /\ attempts[2].outcome = "token")
  => /\ result = "token"
     /\ proxyStats[attempts[1].proxy].failCount = 1
     /\ proxyStats[attempts[1].proxy].successCount = 0
     /\ proxyStats[attempts[2].proxy].successCount = 1
     /\ proxyStats[attempts[2].proxy].failCount = 0

\* launchAndConnectToBrowser has returned the token of its second attempt
\* and the pool has heard of neither attempt.
C9_LauncherReportsNothing ==
  /\ orch = "retry"
  /\ opc = "done"
  /\ runs = 2
  /\ attempts = <<[proxy |-> "p1", outcome |-> "IP_BLOCKED"],
                  [proxy |-> "p2", outcome |-> "token"]>>
  /\ result = "token"
  /\ proxyStats["p1"].failCount = 0
  /\ proxyStats["p2"].successCount = 0

\* The attempt that has run last has ended with a credential outcome.
CredentialEnded == runs > 0 /\ LastAttempt.outcome \in CredentialOutcomes

(* C10: once an attempt has ended with INVALID_CREDENTIALS, ACCOUNT_BANNED  *)
(* or ACCOUNT_DISABLED the login ends: the launcher or part_015's           *)
(* loginWithRetry has returned, no further attempt runs, getNextProxy is    *)
(* not called again, and that outcome is the result returned.               *)
C10_CredentialOutcomeIsTerminal ==
  [][CredentialEnded =>
       /\ opc = "done" \/ launch.pc = "returned"
       /\ result = LastAttempt.outcome
       /\ runs' = runs
       /\ acquires' = acquires
       /\ result' = result
       /\ opc' \in {opc, "done"}]_vars

\* A login has ended after one attempt, with INVALID_CREDENTIALS.
C10_EndedAfterOneAttempt ==
  /\ opc = "done"
  /\ runs = 1
  /\ acquires = 0
  /\ proxy \in Proxies
  /\ result = "INVALID_CREDENTIALS"
  /\ LastAttempt.outcome = "INVALID_CREDENTIALS"

----------------------------------------------------------------------------
(* Properties of one login, continued *)

\* The attempts of a login all of whose attempts end with a navigation
\* timeout: the launcher's maxAttempts, and for part_015 two, or one when
\* getNextProxy has returned null.
AttemptsUnderTimeouts ==
  IF orch = "retry"
    THEN IF launcher = "three" THEN maxAttemptsThree ELSE maxAttemptsFive
    ELSE IF opc = "done" /\ newProxy = null THEN 1 ELSE 2

(* C11: with maxAttempts = 3 (the launcher of part_013) and every attempt   *)
(* ending with a navigation timeout, the login makes exactly 3 attempts and *)
(* returns the timeout; in every revision such a login makes exactly the    *)
(* revision's number of attempts and never more.                            *)
C11_AttemptsUnderTimeouts ==
  (runs > 0 /\ onlyTimeouts) =>
    /\ runs <= AttemptsUnderTimeouts
    /\ opc = "done" => /\ runs = AttemptsUnderTimeouts
                       /\ result \in NavigationTimeouts
    /\ (opc = "done" /\ launcher = "three") => runs = 3

\* The launcher of part_013 has returned after three timeouts.
C11_ThreeTimeouts ==
  /\ orch = "retry"
  /\ launcher = "three"
  /\ opc = "done"
  /\ onlyTimeouts
  /\ runs = 3
  /\ result = "TIMEOUT"

\* A step in which an attempt through a proxy ends with LOGIN_FAILED, the
\* error of a login in which neither a known error nor a token was found.
UnclassifiedAttempt ==
  /\ runs' = runs + 1
  /\ attempts'[Len(attempts')].proxy \in Proxies
  /\ attempts'[Len(attempts')].outcome = "LOGIN_FAILED"

ReportedAsFailure(p) ==
  /\ proxyStats'[p].failCount = proxyStats[p].failCount + 1
  /\ proxyStats'[p].successCount = proxyStats[p].successCount

(* C12: an attempt that ends with LOGIN_FAILED is the last one of its       *)
(* login, and the proxy it ran through is reported to the pool as a failure.*)
C12_UnclassifiedIsTerminalAndReported ==
  [][UnclassifiedAttempt =>
       /\ opc' = "done" \/ launch'.pc = "returned"
       /\ ReportedAsFailure(attempts'[Len(attempts')].proxy)]_vars

\* The launcher of part_013 has made another attempt after LOGIN_FAILED, and
\* the pool has not heard of the failure.
C12_RetriedAfterLoginFailed ==
  /\ orch = "retry"
  /\ launcher = "three"
  /\ runs = 2
  /\ attempts[1] = [proxy |-> "p1", outcome |-> "LOGIN_FAILED"]
  /\ proxyStats["p1"].failCount = 0

\* Everything an attempt can end with.
SessionOutcomes == runPuppeteer("five") \cup runPuppeteer("three") \cup loginFlow

\* A step in which loginWithRetry asks the pool for another proxy, gets none
\* and returns.
PoolExhausted ==
  /\ opc # "done"
  /\ opc' = "done"
  /\ acquires' = acquires + 1
  /\ ev'.op = "getNextProxy"
  /\ ev'.proxy = null

(* C13: when a retry needs a proxy and getNextProxy yields none, the login  *)
(* ends at once with a result of its own, which is none of the results an   *)
(* attempt can end with and so not the result of the attempt before.        *)
C13_PoolExhaustedIsDistinct ==
  [][PoolExhausted => (result' \notin SessionOutcomes /\ runs' = runs)]_vars

\* loginWithRetry has returned the IP_BLOCKED of its last attempt because
\* the pool had no proxy for it.
C13_ReturnedLastResult ==
  /\ orch = "retry"
  /\ opc = "done"
  /\ acquires > 0
  /\ ev.op = "getNextProxy"
  /\ ev.proxy = null
  /\ newProxy = null
  /\ proxy \in Proxies
  /\ result = "IP_BLOCKED"
  /\ LastAttempt.outcome = "IP_BLOCKED"

----------------------------------------------------------------------------
(* The request's deadline: api/login.js races the login against 60 seconds *)

\* setTimeout(() => reject(..), 60000) fires while the login is running, its
\* first attempt begun: the handler answers 500 "Request timed out";
\* loginPromise is left running.
DeadlinePasses ==
  /\ opc \notin {"off", "call", "done"}
  /\ runs > 0 \/ launch.attempt > 0
  /\ ~expired
  /\ expired' = TRUE
  /\ UNCHANGED <<pool, budget, login, impl, proxyList, orch, launcher, net, proxy, store, session, flights, api>>

NextDeadline == LoginNext \/ DeadlinePasses

SpecDeadline == InitRetry /\ [][NextDeadline]_vars

\* A step in which the login starts another attempt: the launcher's loop
\* begins an iteration, or part_015 goes on to its Attempt #2.
StartsAttempt ==
  \/ launch'.attempt = launch.attempt + 1
  \/ opc # "attempt2" /\ opc' = "attempt2"

(* C14: once the deadline of the request has passed the login starts no     *)
(* further attempt; the attempt that is running may end.                    *)
C14_NoAttemptAfterDeadline == [][expired => ~StartsAttempt]_vars

\* The request has been answered with a timeout and its login goes on to
\* choose a proxy for another attempt.
C14_RetryingAfterDeadline ==
  /\ expired
  /\ runs > 0
  /\ launch.attempt > 1
  /\ launch.pc = "select"

----------------------------------------------------------------------------
----------------------------------------------------------------------------
(* The pool and its stats file: one proxy, one caller, restarts, a disk that *)
(* can fail at every step of saveProxyStats                                  *)

\* Cooldowns of entries that an earlier run left in the file: one written
\* under a shorter default, and the maximum.
LegacyCooldown == 10 * 60 * 1000
OldCooldowns == {LegacyCooldown, MAX_LOCK_DURATION_MS}

\* The earlier run used the proxy a moment before it ended.
OldStats(c) ==
  [cooldown |-> c, successCount |-> 0, failCount |-> 1, useCount |-> 1, lastUsed |-> now - 1]

InitialFiles == {noFile, Unreadable} \cup {Document([k \in {"p1"} |-> OldStats(c)]) : c \in OldCooldowns}

\* "lock" alone reads the keys of the file as URLs again; for the other
\* revisions one line stands for every line.
LinesRead(rev) == IF rev = "lock" THEN ProxyLines ELSE {<<"u">>}

\* proxies.txt has no line, or cannot be read, or has one line.
StoreLists == {<<>>, <<"p1">>}

InitStore ==
  /\ impl \in Impls
  /\ proxyList \in StoreLists
  /\ freshPool
  /\ noLogin
  /\ line \in IF proxyList = <<>> THEN {<<>>} ELSE LinesRead(impl)
  /\ file \in InitialFiles
  /\ tempFile = noFile
  /\ saving = "down"
  /\ raised = "none"
  /\ lastSave = "none"
  /\ saves = 0

fixed == <<impl, proxyList, orch, launcher, net, proxy, expired, line, session, flights, api>>

\* The operation ends with saveProxyStats() or without it, d after the last
\* operation, and err is what has left it so far.
Ends(d, does, err) ==
  /\ file' = Aged(file, d)
  /\ tempFile' = Aged(tempFile, d)
  /\ saving' = IF does THEN "opening" ELSE "idle"
  /\ lastSave' = IF does THEN "running" ELSE lastSave
  /\ raised' = err
  /\ UNCHANGED <<budget, fixed, login>>

Saves(d, does) == Ends(d, does, "none")

\* One more operation of the running process.
Counted == saves < MaxSaves /\ saves' = saves + 1

\* An empty proxyList is what proxies.txt without lines gives, and what
\* the catch block of loadProxies leaves when the file cannot be read.
UnreadList == IF proxyList = <<>> THEN BOOLEAN ELSE {FALSE}

\* The module is loaded: loadProxies(); loadProxyStats();
StoreStartup ==
  /\ saving = "down"
  /\ UNCHANGED saves
  /\ impl = "lock" /\ file.kind = "whole"
       => \A k \in DOMAIN file.data : HasName(line, k)
  /\ proxyStats' = WithDefaults(loadProxyStats(impl, line, file))
  /\ ev' = Event("loadProxyStats", null, {})
  /\ UNCHANGED <<lockedProxies, pc, wakeAt, candidate, streak>>
  /\ \E listFails \in UnreadList :
       Ends(0, impl # "lock" /\ file.kind = "whole",
            IF listFails \/ file.kind \in {"partial", "unreadable"}
              THEN loadError("Error") ELSE "none")

\* if (proxyList.length === 0) { return null; }
EmptyPool(ret) ==
  /\ proxyList = <<>>
  /\ ret = null
  /\ ev' = Event("getNextProxy", ret, {})
  /\ UNCHANGED <<proxyStats, lockedProxies, pc, wakeAt, candidate, streak>>

StoreCall ==
  /\ saving = "idle"
  /\ Counted
  /\ \E ret \in Returns :
       /\ \/ EmptyPool(ret)
          \/ proxyList # <<>> /\ GetNextProxyLock("c1", ret)
          \/ proxyList # <<>> /\ GetNextProxyCall("c1", ret)
       /\ Saves(0, impl # "lock" /\ ret \in Proxies)

StoreTimer ==
  /\ saving = "idle"
  /\ Counted
  /\ \E ret \in Returns, d \in Waits :
       /\ WakeWait("c1", ret, d) \/ WakeCandidate("c1", ret, d)
       /\ Saves(d, ret \in Proxies)

StoreFailed ==
  /\ saving = "idle"
  /\ proxyList # <<>>
  /\ Counted
  /\ ReportProxyFailure(proxyList[1])
  /\ Saves(0, TRUE)

StoreSucceeded ==
  /\ saving = "idle"
  /\ proxyList # <<>>
  /\ Counted
  /\ ReportProxySuccess(proxyList[1])
  /\ Saves(0, TRUE)

StoreDecay ==
  /\ saving = "idle"
  /\ Counted
  /\ \E d \in DecayDelays : DecayTimer(d) /\ Saves(d, TRUE)

\* A step of saveProxyStats throws: the catch block logs and the operation
\* that called saveProxyStats returns.
SaveFails ==
  /\ saving' = "idle"
  /\ lastSave' = "failed"
  /\ raised' = saveError("EIO")
  /\ proxyStats' = statsAfterSaveError(proxyStats)
  /\ UNCHANGED <<file, tempFile>>

\* fs.writeFileSync opens the file it writes, which empties it: the stats
\* file itself in "lock", the temporary file in "wait" and "candidate".
SaveOpens ==
  /\ saving = "opening"
  /\ \/ /\ saving' = "writing"
        /\ IF impl = "lock"
             THEN file' = CutDocument /\ UNCHANGED tempFile
             ELSE tempFile' = CutDocument /\ UNCHANGED file
        /\ UNCHANGED <<proxyStats, raised, lastSave>>
     \/ SaveFails
  /\ UNCHANGED <<lockedProxies, pc, wakeAt, candidate, ev, streak, budget, fixed, saves, login>>

\* fs.writeFileSync writes the text to its end.
SaveWrites ==
  /\ saving = "writing"
  /\ \/ /\ IF impl = "lock"
             THEN /\ file' = Document(proxyStats)
                  /\ saving' = "idle"
                  /\ lastSave' = "done"
                  /\ UNCHANGED tempFile
             ELSE /\ tempFile' = Document(proxyStats)
                  /\ saving' = "written"
                  /\ UNCHANGED <<file, lastSave>>
        /\ UNCHANGED <<proxyStats, raised>>
     \/ SaveFails
  /\ UNCHANGED <<lockedProxies, pc, wakeAt, candidate, ev, streak, budget, fixed, saves, login>>

\* fs.statSync(tempFile); fs.renameSync(tempFile, PROXY_STATS_FILE);
SaveRenames ==
  /\ saving = "written"
  /\ \/ /\ file' = tempFile
        /\ tempFile' = noFile
        /\ saving' = "idle"
        /\ lastSave' = "done"
        /\ UNCHANGED <<proxyStats, raised>>
     \/ SaveFails
  /\ UNCHANGED <<lockedProxies, pc, wakeAt, candidate, ev, streak, budget, fixed, saves, login>>

\* The process dies, at any point: what it held in memory is gone, the
\* files stay as they are.
StoreCrash ==
  /\ saving # "down"
  /\ saving' = "down"
  /\ proxyStats' = [p \in Proxies |-> getStatsForProxy]
  /\ lockedProxies' = [p \in Proxies |-> 0]
  /\ pc' = [c \in Callers |-> "idle"]
  /\ wakeAt' = [c \in Callers |-> 0]
  /\ candidate' = [c \in Callers |-> null]
  /\ streak' = [p \in Proxies |-> 0]
  /\ ev' = Event("crash", null, {})
  /\ raised' = "none"
  /\ UNCHANGED <<file, tempFile, lastSave, saves, budget, fixed, login>>

NextStore ==
  \/ StoreStartup
  \/ StoreCall
  \/ StoreTimer
  \/ StoreFailed
  \/ StoreSucceeded
  \/ StoreDecay
  \/ SaveOpens
  \/ SaveWrites
  \/ SaveRenames
  \/ StoreCrash

SpecStore == InitStore /\ [][NextStore]_vars

----------------------------------------------------------------------------
(* C15 *)

\* The stats as decayProxyStats finds them when the timer fires d after the
\* last operation.
StatsAtDecay(d) == ShiftStats(proxyStats, d)

RecentlyUsed(stats) == now - stats.lastUsed <= DECAY_INTERVAL_MS

\* C15: decayProxyStats changes failCount and cooldown only of proxies whose
\* lastUsed is more than DECAY_INTERVAL_MS ago, leaves every field of a
\* recently used proxy as it was, and never changes successCount, useCount
\* or lastUsed.
C15_DecayTouchesOnlyIdleProxies ==
  [][ev'.op = "decayProxyStats" =>
       \E d \in DecayDelays :
         \A p \in Proxies :
           LET before == StatsAtDecay(d)[p]
               after == proxyStats'[p]
           IN  /\ after.successCount = before.successCount
               /\ after.useCount = before.useCount
               /\ after.lastUsed = before.lastUsed
               /\ RecentlyUsed(before) => after = before
               /\ after # before => ~RecentlyUsed(before)]_vars

\* A decay has run while a proxy with failures had been used within the
\* interval, after an earlier decay had lowered the same proxy's cooldown.
C15_DecaySparedRecentProxy ==
  /\ ev.op = "decayProxyStats"
  /\ \E p \in Proxies : /\ proxyStats[p].failCount > 0
                        /\ RecentlyUsed(proxyStats[p])
                        /\ proxyStats[p].lastUsed > 0
                        /\ streak[p] = -1

----------------------------------------------------------------------------
(* C16 *)

WithinBounds(stats) ==
  /\ DEFAULT_LOCK_DURATION_MS <= stats.cooldown
  /\ stats.cooldown <= MAX_LOCK_DURATION_MS

\* C16: in every state the running pool reaches through loadProxyStats,
\* getNextProxy, reportProxySuccess, reportProxyFailure and decayProxyStats,
\* the cooldown of every proxy is at least DEFAULT_LOCK_DURATION_MS and at
\* most MAX_LOCK_DURATION_MS.
C16_CooldownWithinBounds ==
  saving # "down" => \A k \in DOMAIN proxyStats : WithinBounds(proxyStats[k])

\* "lock" has loaded an entry with a cooldown below the default, handed the
\* proxy out and locked it for that cooldown.
C16_LockedForLegacyCooldown ==
  /\ impl = "lock"
  /\ ev.op = "getNextProxy"
  /\ ev.proxy = "p1"
  /\ proxyStats["p1"].cooldown = LegacyCooldown
  /\ lockedProxies["p1"] = now + LegacyCooldown

----------------------------------------------------------------------------
(* C17 *)

SaveCompletes == saving \in {"writing", "written"} /\ saving' = "idle" /\ lastSave' = "done"

\* C17: when saveProxyStats has written proxyStats, loadProxyStats on the
\* file gives the same mapping again, with the same keys and the same fields.
C17_ReloadGivesWhatWasSaved ==
  [][SaveCompletes =>
       WithDefaults(loadProxyStats(impl, line, file')) = proxyStats']_vars

\* "lock" has saved the stats of its proxy and was started again: the stats
\* are under another key, and the proxy of the list has fresh ones.
C17_StatsUnderAnotherKey ==
  /\ impl = "lock"
  /\ saving = "idle"
  /\ ev.op = "loadProxyStats"
  /\ file.kind = "whole"
  /\ DOMAIN file.data = {"p1"}
  /\ lastSave = "done"
  /\ file.data["p1"].failCount = 1
  /\ file.data["p1"].cooldown = FAILURE_MULTIPLIER * DEFAULT_LOCK_DURATION_MS
  /\ DOMAIN proxyStats = {"p1", "p1+"}
  /\ proxyStats["p1+"] = file.data["p1"]
  /\ proxyStats["p1"] = getStatsForProxy

----------------------------------------------------------------------------
(* C18 *)

\* C18: at every instant, also between the steps of saveProxyStats, where
\* the process can die and another process can read, the stats file holds a
\* whole document, the one before the save or the one after it, and never a
\* part of one.
C18_StatsFileIsWhole == file.kind # "partial"

\* "lock" died while saveProxyStats was writing the stats file and was
\* started again: JSON.parse rejected what was left of the file, and the
\* pool runs on empty stats.
C18_RestartedOnCutFile ==
  /\ impl = "lock"
  /\ saving = "idle"
  /\ ev.op = "loadProxyStats"
  /\ lastSave = "running"
  /\ file.kind = "partial"
  /\ proxyStats = [p \in Proxies |-> getStatsForProxy]

----------------------------------------------------------------------------
(* C19 *)

\* api/login.js after proxy = await getNextProxy(): the catch block answers
\* 503, otherwise loginWithRetry is started with what getNextProxy returned.
afterGetNextProxy(ret, err) == IF err # "none" THEN "503" ELSE "loginWithRetry"

\* A step of getNextProxy: its call, the rest of it after the sleep, or a
\* step of its saveProxyStats.
AcquireStep == ev'.op \in {"getNextProxy", "sleep"} /\ saving # "down"

\* getNextProxy is called while no proxy of the list is unlocked.
CalledInVain ==
  /\ saving = "idle"
  /\ saves' = saves + 1
  /\ ev'.op \in {"getNextProxy", "sleep"}
  /\ pc["c1"] = "idle"
  /\ UnlockedProxies(proxyStats, lockedProxies, now) = {}

\* C19: getNextProxy never throws.  With an empty list it returns null; with
\* no proxy unlocked it returns null or waits; the caller that gets null
\* goes on to loginWithRetry.
C19_AcquireNeverThrows ==
  [][/\ AcquireStep => raised' = "none"
     /\ CalledInVain =>
          /\ \/ ev'.op = "getNextProxy" /\ ev'.proxy = null
             \/ ev'.op = "sleep" /\ pc'["c1"] = "sleeping" /\ proxyList # <<>>
          /\ proxyList = <<>> => ev'.proxy = null
          /\ afterGetNextProxy(ev'.proxy, raised') = "loginWithRetry"]_vars

\* getNextProxy has returned null although the list has a proxy.
C19_NullWhileLocked ==
  /\ proxyList # <<>>
  /\ saving = "idle"
  /\ ev.op = "getNextProxy"
  /\ ev.proxy = null
  /\ raised = "none"
  /\ UnlockedProxies(proxyStats, lockedProxies, now) = {}

----------------------------------------------------------------------------
(* C20 *)

SaveJustFailed == saving \in {"opening", "writing", "written"} /\ lastSave' = "failed"

\* C20: when a step of saveProxyStats fails, the operation that called it,
\* getNextProxy, reportProxySuccess, reportProxyFailure or decayProxyStats,
\* returns without raising, and proxyStats holds what the operation made of
\* it, as after a save that succeeds.
C20_FailedSaveKeepsMutation ==
  [][/\ SaveJustFailed => /\ saving' = "idle"
                          /\ raised' = "none"
                          /\ UNCHANGED <<proxyStats, lockedProxies>>
     /\ SaveCompletes => UNCHANGED <<proxyStats, lockedProxies>>]_vars

\* reportProxyFailure has returned after a save that failed: the failure is
\* counted in memory and nothing of it is in the file.
C20_FailureCountedWithoutFile ==
  /\ saving = "idle"
  /\ lastSave = "failed"
  /\ raised = "none"
  /\ ev.op = "reportProxyFailure"
  /\ proxyStats["p1"].failCount = 1
  /\ proxyStats["p1"].cooldown = FAILURE_MULTIPLIER * DEFAULT_LOCK_DURATION_MS
  /\ file.kind = "absent"

----------------------------------------------------------------------------
(* C21 *)

ModuleLoads == saving = "down" /\ saving' # "down"

\* C21: loading the module never fails.  When the stats file cannot be read
\* or parsed, proxyStats starts empty and every proxy of the list is
\* unlocked with default stats; when proxies.txt cannot be read the list is
\* empty and every later getNextProxy returns null.
C21_InitializeIsNonFatal ==
  [][/\ ModuleLoads =>
          /\ raised' = "none"
          /\ file.kind \in {"partial", "unreadable"} =>
               /\ proxyStats' = [p \in Proxies |-> getStatsForProxy]
               /\ UnlockedProxies(proxyStats', lockedProxies', now) = Proxies
     /\ (proxyList = <<>> /\ saves' = saves + 1 /\ ev'.op = "getNextProxy") =>
          /\ ev'.proxy = null
          /\ raised' = "none"]_vars

\* The module was loaded on a stats file it could not read, and the proxy
\* of the list has then been handed out.
C21_HandedOutAfterUnreadableStats ==
  /\ file.kind = "unreadable"
  /\ saving \in {"idle", "opening"}
  /\ ev.op = "getNextProxy"
  /\ ev.proxy = "p1"
  /\ saves = 1
  /\ raised = "none"

----------------------------------------------------------------------------
(* C22 *)

\* The object loginWithRetry resolves to: what the last runPuppeteer or
\* loginFlow returned, { token } or { error, description }.
ReturnValue(res) ==
  IF res = "token" THEN [token |-> "token"]
                   ELSE [error |-> res, description |-> "description"]

\* obj.f is defined
Has(obj, f) == f \in DOMAIN obj

\* C22: what loginWithRetry returns carries the final classification, the
\* number of attempts, which is the number of session runs made for the
\* request, and after a success the token.
C22_OutcomeCarriesAttemptCount ==
  opc = "done" =>
    LET out == ReturnValue(result)
    IN  /\ Has(out, "token") \/ Has(out, "error")
        /\ result = "token" => Has(out, "token")
        /\ Has(out, "attempts") /\ out.attempts = runs

\* A login has returned a token after two session runs, and the object it
\* returned has neither attempts nor result, the fields api/login.js reads.
C22_TokenWithoutAttemptCount ==
  /\ orch = "retry"
  /\ opc = "done"
  /\ runs = 2
  /\ result = "token"
  /\ ~Has(ReturnValue(result), "attempts")
  /\ ~Has(ReturnValue(result), "result")

----------------------------------------------------------------------------
(* C23: the proxy the caller prefers serves the first attempt only *)

\* A session runs: runPuppeteer or loginFlow is called once more.
SessionRuns == runs' = runs + 1

\* The proxy of the session that has just run.
ProxyOfRun == attempts'[Len(attempts')].proxy

\* C23: when the caller has passed a proxy, the first attempt runs through it
\* and getNextProxy has not been called before it; every later attempt that
\* runs through a proxy runs through the one the last call of getNextProxy
\* has returned.
C23_PreferredProxyFirstAttemptOnly ==
  [][(proxy # null /\ SessionRuns) =>
       IF runs = 0
         THEN ProxyOfRun = proxy /\ acquires = 0
         ELSE ProxyOfRun # null => ev.op = "getNextProxy" /\ ev.proxy = ProxyOfRun]_vars

\* A second attempt has run through the caller's proxy, and getNextProxy has
\* never been called.
C23_PreferredProxyUsedTwice ==
  /\ proxy # null
  /\ runs = 2
  /\ Len(attempts) = 2
  /\ attempts[1].proxy = proxy
  /\ attempts[2].proxy = proxy
  /\ acquires = 0

----------------------------------------------------------------------------
(* One session: runPuppeteer (core/puppeteer.js) and performLogin           *)
(* (core/login_handler.js).  session.runner says which revision of          *)
(* runPuppeteer runs:                                                       *)
(*   "screenshots" src/core/puppeteer.js:134-229                            *)
(*   "plain"       src/core/puppeteer.js:417-480                            *)
(*   "captcha"     src/core/puppeteer.js:708-800                            *)
(* and session.handler which revision of performLogin:                      *)
(*   "code"        src/core/login_handler.js:14-187                         *)
(*   "status"      src/core/login_handler.js:205-335                        *)
(*   "priority"    src/core/login_handler.js:366-563                        *)

MaxResponses == 2

Runners == {"screenshots", "plain", "captcha"}
Handlers == {"code", "status", "priority"}

\* The codes oryRegex can match in a URL.
Codes == {"ory_ac_1", "ory_ac_2"}

\* JavaScript values with their typeof.
Str(s) == [type |-> "string", value |-> s]
False == [type |-> "boolean", value |-> "false"]
typeof(v) == v.type

\* The texts performLogin looks for in the final page.
BannedText == "We are unable to log you in to this account. Please contact Customer Service"
IncorrectText == "Your username or password is incorrect."
DisabledText == "your account has been disabled for"
IncapsulaText == "Incapsula"
PageTexts == {BannedText, IncorrectText, DisabledText, IncapsulaText}

\* The responses the page can receive while performLogin runs.
Responses == [status : {200, 403, 418}, body : {"", IncapsulaText}, code : Codes \cup {null}]

\* responseListener of the three revisions
responseListener(s, response) ==
  LET coded == IF s.foundCode = null /\ response.code # null
                 THEN [s EXCEPT !.foundCode = response.code]
                 ELSE s
  IN  IF s.handler = "code"
        THEN coded
        ELSE IF s.handler = "status"
               THEN [coded EXCEPT !.bannedStatus = @ \/ response.status = 418]
               ELSE [coded EXCEPT !.bannedStatus = @ \/ response.status = 418,
                                  !.impervaBlocked = \/ @
                                                     \/ response.status = 403
                                                     \/ response.body = IncapsulaText]

\* The end of loginProcess: finalUrl holds the code urlCode or none, and
\* page.content() holds the texts of content.
FinalResult(s, urlCode, content) ==
  LET foundCode == IF s.foundCode # null THEN s.foundCode ELSE urlCode
      finalPageContent == IF foundCode = null THEN content ELSE {}
  IN  IF s.handler \in {"code", "status"}
        THEN IF foundCode # null THEN Str(foundCode) ELSE False
        ELSE IF s.impervaBlocked THEN Str("IP_BLOCKED")
        ELSE IF s.bannedStatus THEN Str("ACCOUNT_BANNED")
        ELSE IF BannedText \in finalPageContent THEN Str("ACCOUNT_BANNED")
        ELSE IF IncorrectText \in finalPageContent THEN Str("INVALID_CREDENTIALS")
        ELSE IF DisabledText \in finalPageContent THEN Str("ACCOUNT_DISABLED")
        ELSE IF IncapsulaText \in finalPageContent THEN Str("IP_BLOCKED")
        ELSE IF foundCode # null THEN Str(foundCode)
        ELSE False

\* runPuppeteer after performLogin has returned loginResult
HandleLoginResult(runner, loginResult) ==
  LET known == IF runner = "plain"
                 THEN {"IP_BLOCKED", "ACCOUNT_BANNED"}
                 ELSE IF runner = "screenshots"
                        THEN {"IP_BLOCKED", "ACCOUNT_BANNED", "INVALID_CREDENTIALS",
                              "ACCOUNT_DISABLED"}
                        ELSE {"IP_BLOCKED", "ACCOUNT_BANNED", "INVALID_CREDENTIALS",
                              "ACCOUNT_DISABLED", "LOGIN_FAILED"}
  IN  IF typeof(loginResult) = "string" /\ loginResult.value \in known
        THEN [error |-> loginResult.value]
        ELSE IF typeof(loginResult) = "string"
               THEN [token |-> loginResult.value]
               ELSE [error |-> "LOGIN_FAILED"]

\* What runPuppeteer returns before it calls performLogin.
EarlyErrors(runner) ==
  IF runner = "screenshots" THEN {"IP_BLOCKED", "NAVIGATION_TIMEOUT", "CRITICAL_ERROR"}
  ELSE IF runner = "plain" THEN {"IP_BLOCKED", "CRITICAL_ERROR"}
  ELSE {"CAPTCHA_BANNED", "TIMEOUT", "IP_BLOCKED", "CRITICAL_ERROR"}

outside == <<pool, budget, login, impl, proxyList, orch, launcher, net, proxy, expired, store, flights, api>>

InitSession ==
  /\ impl = "wait"
  /\ proxyList = <<"p1">>
  /\ freshPool
  /\ orch = "none"
  /\ launcher = "none"
  /\ net = "none"
  /\ proxy = null
  /\ opc = "off"
  /\ launch = idleLaunch
  /\ result = "none"
  /\ newProxy = null
  /\ promised = null
  /\ runs = 0
  /\ acquires = 0
  /\ attempts = <<>>
  /\ onlyTimeouts = TRUE
  /\ expired = FALSE
  /\ noStore
  /\ flights = noFlights
  /\ api = noApi
  /\ \E runner \in Runners, handler \in Handlers :
       session = [noSession EXCEPT !.pc = "start", !.runner = runner, !.handler = handler]

\* runPuppeteer up to performLogin: the banned IP, page.goto, the Imperva text
Navigate ==
  /\ session.pc = "start"
  /\ \/ \E error \in EarlyErrors(session.runner) :
          session' = [session EXCEPT !.pc = "returned", !.returned = [error |-> error]]
     \/ session' = [session EXCEPT !.pc = "credentials"]
  /\ UNCHANGED outside

\* a response arrives while performLogin awaits
Response ==
  /\ session.pc \in {"credentials", "clicked", "consent"}
  /\ session.responses < MaxResponses
  /\ \E response \in Responses :
       session' = [responseListener(session, response) EXCEPT
                     !.responses = @ + 1,
                     !.seen = @ \cup ({response.code} \ {null})]
  /\ UNCHANGED outside

\* the credentials are typed: if (foundCode) .. else the click on #accept
ClickLogin ==
  /\ session.pc = "credentials"
  /\ session' =
       IF session.foundCode = null
         THEN [session EXCEPT !.pc = "clicked"]
         ELSE [session EXCEPT !.pc = "classify",
                              !.loginResult = IF session.handler = "priority"
                                                THEN FinalResult(session, null, {})
                                                ELSE Str(session.foundCode)]
  /\ UNCHANGED outside

\* login_handler.js:275-287: one second after the click, the 418 and the code
AfterClick ==
  /\ session.pc = "clicked"
  /\ session.handler = "status"
  /\ session' =
       IF session.bannedStatus
         THEN [session EXCEPT !.pc = "classify", !.loginResult = Str("ACCOUNT_BANNED")]
         ELSE IF session.foundCode # null
                THEN [session EXCEPT !.pc = "classify",
                                     !.loginResult = Str(session.foundCode)]
                ELSE [session EXCEPT !.pc = "consent"]
  /\ UNCHANGED outside

\* the final checks of loginProcess
FinalChecks ==
  /\ session.pc = IF session.handler = "status" THEN "consent" ELSE "clicked"
  /\ \E urlCode \in Codes \cup {null}, content \in SUBSET PageTexts :
       session' = [session EXCEPT !.pc = "classify",
                                  !.loginResult = FinalResult(session, urlCode, content),
                                  !.foundCode = IF session.handler = "priority" /\ @ = null
                                                  THEN urlCode ELSE @,
                                  !.seen = @ \cup ({urlCode} \ {null})]
  /\ UNCHANGED outside

\* a waitForSelector throws or the global timeout rejects: return false
LoginThrows ==
  /\ session.pc \in {"credentials", "clicked", "consent"}
  /\ session' = [session EXCEPT !.pc = "classify", !.loginResult = False]
  /\ UNCHANGED outside

\* runPuppeteer returns what it makes of loginResult
Classify ==
  /\ session.pc = "classify"
  /\ session' = [session EXCEPT
                   !.pc = "returned",
                   !.returned = HandleLoginResult(session.runner, session.loginResult)]
  /\ UNCHANGED outside

NextSession ==
  \/ Navigate
  \/ Response
  \/ ClickLogin
  \/ AfterClick
  \/ FinalChecks
  \/ LoginThrows
  \/ Classify

SpecSession == InitSession /\ [][NextSession]_vars

----------------------------------------------------------------------------
(* C24: the outcomes of a session are a closed set *)

\* The errors performLogin returns as strings.
LoginErrors == {"IP_BLOCKED", "ACCOUNT_BANNED", "INVALID_CREDENTIALS", "ACCOUNT_DISABLED"}

\* Every error a session can end with.
SessionErrors ==
  LoginErrors \cup {"LOGIN_FAILED", "CAPTCHA_BANNED", "TIMEOUT", "NAVIGATION_TIMEOUT",
                    "NO_RESPONSE", "CRITICAL_ERROR"}

performLoginReturned == typeof(session.loginResult) # "undefined"

\* C24: every value performLogin returns is classified: an error string
\* becomes { error } with that error, false becomes LOGIN_FAILED and a code
\* becomes { token }.  runPuppeteer returns { token } only with a code that
\* was found in a URL, never with the name of an error, and every error it
\* returns is one of the closed set.
C24_OutcomesClassified ==
  session.pc = "returned" =>
    LET out == session.returned
        loginResult == session.loginResult
    IN  /\ Has(out, "token") \/ (Has(out, "error") /\ out.error \in SessionErrors)
        /\ Has(out, "token") => out.token \in session.seen /\ out.token \notin SessionErrors
        /\ performLoginReturned =>
             /\ (typeof(loginResult) = "string" /\ loginResult.value \in LoginErrors)
                  => out = [error |-> loginResult.value]
             /\ loginResult = False => out = [error |-> "LOGIN_FAILED"]
             /\ (typeof(loginResult) = "string" /\ loginResult.value \in Codes)
                  => out = [token |-> loginResult.value]

\* The page said that the password is incorrect, and runPuppeteer has
\* returned that as a token.
C24_InvalidCredentialsAsToken ==
  /\ session.pc = "returned"
  /\ session.loginResult = Str("INVALID_CREDENTIALS")
  /\ session.returned = [token |-> "INVALID_CREDENTIALS"]

----------------------------------------------------------------------------
(* C25: one report per attempt through a proxy *)

ReportOps == {"reportProxyFailure", "reportProxySuccess"}

\* How often the pool has been told of an outcome of p.
ReportsOn(p) == proxyStats[p].failCount + proxyStats[p].successCount

\* The same after the step.
ReportsAfter(p) == proxyStats'[p].failCount + proxyStats'[p].successCount

\* C25: the step in which a session has run through a proxy ends with one
\* report on that proxy, reportProxySuccess or reportProxyFailure, made
\* before anything else of the login happens; the step of a session without
\* a proxy leaves the pool as it is.
C25_OneReportPerAttempt ==
  [][SessionRuns =>
       IF ProxyOfRun \in Proxies
         THEN /\ ev'.op \in ReportOps
              /\ ev'.proxy = ProxyOfRun
              /\ ReportsAfter(ProxyOfRun) = ReportsOn(ProxyOfRun) + 1
         ELSE UNCHANGED pool]_vars

\* loginWithRetry has returned after two attempts through proxies and the
\* pool has not been told of any outcome.
C25_ReturnedWithoutReport ==
  /\ opc = "done"
  /\ runs = 2
  /\ Len(attempts) = 2
  /\ \A i \in 1..2 : attempts[i].proxy \in Proxies
  /\ \A p \in Proxies : ReportsOn(p) = 0

----------------------------------------------------------------------------
(* C26: the retry leaves the proxy that has just failed *)

\* Another attempt of the login has gone before, through a proxy, and the
\* pool holds another proxy that getNextProxy would hand out.
RetryWithChoice ==
  /\ runs >= 1
  /\ LastAttempt.proxy \in Proxies
  /\ \E other \in Proxies \ {LastAttempt.proxy} : AvailableNow(other)

\* C26: when the login retries after an attempt through a proxy and another
\* proxy of the pool is available, the next session does not run through
\* the proxy of the attempt before.
C26_RetryLeavesFailedProxy ==
  [][(SessionRuns /\ RetryWithChoice) => ProxyOfRun # LastAttempt.proxy]_vars

\* Two attempts in a row have run through p1, the first has ended with
\* IP_BLOCKED, and p2 has been available all along.
C26_SameProxyAgain ==
  /\ runs = 2
  /\ Len(attempts) = 2
  /\ attempts[1] = [proxy |-> "p1", outcome |-> "IP_BLOCKED"]
  /\ attempts[2].proxy = "p1"
  /\ acquires = 0
  /\ AvailableNow("p2")

----------------------------------------------------------------------------
(* C27: getNextProxy leaves the cooldowns and the counters alone *)

\* getNextProxy has run in this step: from its call to its return or to its
\* sleep, or from the end of its sleep to its return.
GetNextProxyRuns == ev'.op \in {"getNextProxy", "sleep"}

\* C27: a run of getNextProxy changes cooldown, failCount and successCount of
\* no proxy, and useCount of no proxy but the one it returns.
C27_AcquireTouchesOnlyUse ==
  [][GetNextProxyRuns =>
       \A p \in Proxies :
         /\ proxyStats'[p].cooldown = proxyStats[p].cooldown
         /\ proxyStats'[p].failCount = proxyStats[p].failCount
         /\ proxyStats'[p].successCount = proxyStats[p].successCount
         /\ p # ev'.proxy => proxyStats'[p].useCount = proxyStats[p].useCount]_vars

\* getNextProxy has handed out a proxy a second time while none was out of
\* its cooldown; the one session that has reported on it has reported a
\* success, and yet the proxy has a failure and a longer cooldown.
C27_AcquirePenalises ==
  /\ ev.op = "getNextProxy"
  /\ ev.proxy \in Proxies
  /\ ev.free = {}
  /\ proxyStats[ev.proxy].failCount = 1
  /\ proxyStats[ev.proxy].cooldown > DEFAULT_LOCK_DURATION_MS
  /\ grants = 2
  /\ held[ev.proxy] = 1
  /\ proxyStats[ev.proxy].successCount = 1

----------------------------------------------------------------------------
(* C28: the stats file follows the stats in memory *)

StoreOps == {"getNextProxy", "reportProxyFailure", "reportProxySuccess", "decayProxyStats"}

\* getNextProxy, a report or decayProxyStats has run to its end, with its
\* saveProxyStats if it has one, and that has not failed.
OperationCompleted ==
  /\ saving = "idle"
  /\ ev.op \in StoreOps
  /\ lastSave # "failed"

\* The stats a process started now would hold after loadProxyStats.
Reloaded == WithDefaults(loadProxyStats(impl, line, file))

\* C28: once an operation of the pool has completed without a failed write,
\* the stats file holds the stats of the memory, so that a process started
\* now loads them as they are and finds no proxy available that the running
\* process holds back.
C28_StoreFollowsMemory ==
  OperationCompleted =>
    /\ Reloaded = proxyStats
    /\ \A p \in Proxies :
         ~AvailableNow(p) => p \notin UnlockedProxies(Reloaded, [q \in Proxies |-> 0], now)

\* getNextProxy has handed out the proxy and locked it; the stats file does
\* not know of it, and a process started now would hand it out again.
C28_LockLostByRestart ==
  /\ impl = "lock"
  /\ OperationCompleted
  /\ ev = Event("getNextProxy", "p1", {"p1"})
  /\ ~AvailableNow("p1")
  /\ Reloaded # proxyStats
  /\ "p1" \in UnlockedProxies(Reloaded, [q \in Proxies |-> 0], now)

----------------------------------------------------------------------------
(* C29: what loadProxyStats makes of the entries of the file *)

\* C29: when the module is loaded on a stats file that can be read, every
\* entry of the file is in proxyStats afterwards: with the default cooldown
\* if the cooldown of the file is below DEFAULT_LOCK_DURATION_MS, and field
\* by field as in the file otherwise.
C29_LoadRaisesLowCooldown ==
  [][(ModuleLoads /\ file.kind = "whole") =>
       \A k \in DOMAIN file.data :
         /\ k \in DOMAIN proxyStats'
         /\ IF file.data[k].cooldown < DEFAULT_LOCK_DURATION_MS
              THEN proxyStats'[k].cooldown = DEFAULT_LOCK_DURATION_MS
              ELSE proxyStats'[k] = file.data[k]]_vars

\* The module has just been loaded on a file with a cooldown of ten minutes,
\* and the proxy has that cooldown in memory.
C29_LowCooldownLoaded ==
  /\ ev.op = "loadProxyStats"
  /\ saving = "idle"
  /\ file.kind = "whole"
  /\ file.data["p1"].cooldown = LegacyCooldown
  /\ proxyStats["p1"].cooldown = LegacyCooldown

----------------------------------------------------------------------------
(* C30: decay brings an idle proxy back *)

Recovered(stats) == stats.cooldown = DEFAULT_LOCK_DURATION_MS /\ stats.failCount = 0

\* C30: every run of decayProxyStats that finds a proxy unused for more than
\* DECAY_INTERVAL_MS leaves it with its cooldown divided by FAILURE_MULTIPLIER,
\* but not below DEFAULT_LOCK_DURATION_MS, and with failCount lowered by one,
\* but not below zero.  When decayProxyStats runs again and again and from
\* some point on no outcome is reported, every proxy ends up with the default
\* cooldown and failCount zero, and stays there.
C30_DecayRecoversIdleProxy ==
  /\ [][ev'.op = "decayProxyStats" =>
          \A p \in Proxies :
            ~RecentlyUsed(proxyStats'[p]) =>
              /\ proxyStats'[p].cooldown =
                   Max(DEFAULT_LOCK_DURATION_MS, proxyStats[p].cooldown \div FAILURE_MULTIPLIER)
              /\ proxyStats'[p].failCount = Max(proxyStats[p].failCount - 1, 0)]_vars
  /\ ([]<>(ev.op = "decayProxyStats") /\ <>[](ev.op \notin ReportOps))
       => <>[](\A p \in Proxies : Recovered(proxyStats[p]))

\* A proxy with reported failures and no success has been idle, decays have
\* lowered its cooldown, and the last one has left it with the default
\* cooldown and failCount zero.
C30_IdleProxyRecovered ==
  /\ ev.op = "decayProxyStats"
  /\ streak["p1"] = -1
  /\ proxyStats["p1"].successCount = 0
  /\ proxyStats["p1"].lastUsed = 0
  /\ Recovered(proxyStats["p1"])

----------------------------------------------------------------------------
(* Attempts in flight: each proxy getNextProxy hands out carries one attempt *)
(* of the session that asked for it                                         *)

\* src/unnamed/part_003, the earliest pool: impl = "table".  The lock table
\* alone decides, a proxy is locked for its cooldown, ten seconds at first.
DEFAULT_LOCK_DURATION_MS_TABLE == 10 * 1000

\* performLogin: const globalTimeout = 59000, an attempt ends within it
globalTimeout == 59000

MaxFlights == 3    \* attempts started in the flight specification

\* "table" getStatsForProxy: {cooldown, successCount, failCount}; the other
\* fields of the model's record are never written nor read by this revision
getStatsForProxyTable ==
  [getStatsForProxy EXCEPT !.cooldown = DEFAULT_LOCK_DURATION_MS_TABLE]

\* "table" getNextProxy, called by c and returning ret
GetNextProxyTable(c, ret) ==
  /\ impl = "table"
  /\ pc[c] = "idle"
  /\ LET unlockedProxies == {p \in Proxies : lockedProxies[p] = 0 \/ lockedProxies[p] < now}
         cooldown == IF proxyStats[ret].cooldown # 0
                       THEN proxyStats[ret].cooldown
                       ELSE DEFAULT_LOCK_DURATION_MS_TABLE
     IN  IF unlockedProxies = {}
           THEN /\ ret = null
                /\ UNCHANGED lockedProxies
           ELSE /\ ret \in unlockedProxies
                /\ lockedProxies' = [lockedProxies EXCEPT ![ret] = now + cooldown]
  /\ ev' = Event("getNextProxy", ret, {})
  /\ UNCHANGED <<proxyStats, pc, wakeAt, candidate, streak>>

\* "table" reportProxyFailure(proxy)
ReportProxyFailureTable(p) ==
  LET doubled == IF proxyStats[p].cooldown # 0
                   THEN proxyStats[p].cooldown * FAILURE_MULTIPLIER
                   ELSE DEFAULT_LOCK_DURATION_MS_TABLE * FAILURE_MULTIPLIER
      newCooldown == IF doubled > MAX_LOCK_DURATION_MS THEN MAX_LOCK_DURATION_MS ELSE doubled
  IN  /\ proxyStats' = [proxyStats EXCEPT ![p] = [@ EXCEPT !.failCount = @ + 1,
                                                           !.cooldown = newCooldown]]
      /\ lockedProxies' = [lockedProxies EXCEPT ![p] = now + newCooldown]
      /\ streak' = StreakAfterFailure(p)
      /\ ev' = Event("reportProxyFailure", p, {})
      /\ UNCHANGED <<pc, wakeAt, candidate>>

\* "table" reportProxySuccess(proxy)
ReportProxySuccessTable(p) ==
  /\ proxyStats' = [proxyStats EXCEPT ![p] = [@ EXCEPT !.successCount = @ + 1,
                                                       !.cooldown = DEFAULT_LOCK_DURATION_MS_TABLE]]
  /\ lockedProxies' = [lockedProxies EXCEPT ![p] = now]
  /\ streak' = [streak EXCEPT ![p] = 0]
  /\ ev' = Event("reportProxySuccess", p, {})
  /\ UNCHANGED <<pc, wakeAt, candidate>>

\* What the flight specification leaves alone.
grounded == <<held, login, impl, proxyList, orch, launcher, net, proxy, expired, store,
              session, api>>

InitFlight ==
  /\ impl \in Impls \cup {"table"}
  /\ proxyList \in ProxyLists
  /\ proxyStats = [p \in Proxies |->
                     IF impl = "table" THEN getStatsForProxyTable ELSE getStatsForProxy]
  /\ lockedProxies = [p \in Proxies |-> 0]
  /\ pc = [c \in Callers |-> "idle"]
  /\ wakeAt = [c \in Callers |-> 0]
  /\ candidate = [c \in Callers |-> null]
  /\ ev = Event("init", null, {})
  /\ streak = [p \in Proxies |-> 0]
  /\ grants = 0
  /\ held = [p \in Proxies |-> 0]
  /\ ticks = 0
  /\ session = noSession
  /\ api = noApi
  /\ flights = [p \in Proxies |-> <<>>]
  /\ orch = "none" /\ launcher = "none" /\ net = "none" /\ proxy = null
  /\ opc = "off" /\ launch = idleLaunch /\ result = "none"
  /\ newProxy = null /\ promised = null
  /\ runs = 0 /\ acquires = 0 /\ attempts = <<>>
  /\ onlyTimeouts = TRUE /\ expired = FALSE
  /\ noStore

\* The attempts in flight d milliseconds later: flights[p][i] is how long
\* the i-th attempt through p has been running.
Aloft(d) == [p \in Proxies |-> [i \in 1..Len(flights[p]) |-> flights[p][i] + d]]

\* No attempt outlives the global timeout of performLogin.
InTime(d) == \A p \in Proxies : \A i \in 1..Len(flights[p]) : flights[p][i] + d <= globalTimeout

\* The session that was handed ret starts its attempt through it, d
\* milliseconds after the last operation.
TakeOff(ret, d) ==
  /\ InTime(d)
  /\ IF ret \in Proxies
       THEN /\ grants < MaxFlights
            /\ grants' = grants + 1
            /\ flights' = [Aloft(d) EXCEPT ![ret] = Append(@, 0)]
       ELSE /\ flights' = Aloft(d)
            /\ UNCHANGED grants

FlightCall(c) ==
  \E ret \in Returns :
    /\ \/ GetNextProxyTable(c, ret)
       \/ GetNextProxyLock(c, ret)
       \/ GetNextProxyCall(c, ret)
    /\ TakeOff(ret, 0)
    /\ UNCHANGED <<ticks, grounded>>

FlightTimer(c) ==
  \E ret \in Returns, d \in Waits :
    /\ WakeWait(c, ret, d) \/ WakeCandidate(c, ret, d)
    /\ TakeOff(ret, d)
    /\ Passing(d)
    /\ UNCHANGED grounded

\* The attempts through p without the i-th.
Landed(p, i) ==
  [flights EXCEPT ![p] = SubSeq(@, 1, i - 1) \o SubSeq(@, i + 1, Len(@))]

\* An attempt through p ends.  The session reports the proxy as failed or as
\* good (part_015), or says nothing to the pool (login_with_retry.js).
FlightLands(p) ==
  /\ \E i \in 1..Len(flights[p]) : flights' = Landed(p, i)
  /\ \/ IF impl = "table" THEN ReportProxyFailureTable(p) ELSE ReportProxyFailure(p)
     \/ IF impl = "table" THEN ReportProxySuccessTable(p) ELSE ReportProxySuccess(p)
     \/ ev' = Event("silent", p, {}) /\ UNCHANGED <<proxyStats, lockedProxies, pc, wakeAt, candidate, streak>>
  /\ UNCHANGED <<grants, ticks, grounded>>

\* "table": lockedUntil < now holds one millisecond after the lock has ended
TableDelays ==
  IF impl = "table"
    THEN {lockedProxies[p] - now + 1 : p \in {q \in Proxies : lockedProxies[q] >= now}}
    ELSE {}

FlightPasses ==
  /\ \E d \in Delays \cup TableDelays :
       /\ Elapse(d)
       /\ Passing(d)
       /\ InTime(d)
       /\ flights' = Aloft(d)
  /\ UNCHANGED <<grants, grounded>>

NextFlight ==
  \/ \E c \in Racing : FlightCall(c)
  \/ \E c \in Racing : FlightTimer(c)
  \/ \E p \in Proxies : FlightLands(p)
  \/ FlightPasses

SpecFlight == InitFlight /\ [][NextFlight]_vars

\* C31: getNextProxy never hands a proxy to a second session while the
\* attempt of another session through that proxy is still in flight: no
\* proxy ever carries two attempts at once, whatever the cooldown and the
\* timeout of an attempt are.
C31_OneFlightPerProxy ==
  \A p \in Proxies : Len(flights[p]) <= 1

\* "table": the proxy was handed out again right after its ten seconds,
\* while the attempt that got it first has been running for as long
C31_SecondFlightAfterLock ==
  /\ impl = "table"
  /\ ev.op = "getNextProxy"
  /\ \E p \in Proxies :
       /\ ev.proxy = p
       /\ Len(flights[p]) = 2
       /\ flights[p][1] = DEFAULT_LOCK_DURATION_MS_TABLE + 1
       /\ flights[p][2] = 0

----------------------------------------------------------------------------
(* The handler of POST /login: api/login.js *)

MaxRequests == 2   \* requests that arrive in the handler specification

Requests == 1..MaxRequests

\* The revisions of the handler:
\*   "counted" src/api/login.js:140-261    concurrentLogins, 60 second race
\*   "plain"   src/api/login.js:275-373    no admission check
\*   "busy"    src/unnamed/part_000:13-120 isBusy
ApiRevs == {"counted", "plain", "busy"}

\* const maxConcurrentLogins = +process.env.MAX_CONCURRENT_LOGINS || 1
maxConcurrentLogins == 1

\* How a retry session ends: with the result of its last attempt, or with
\* an exception that leaves loginWithRetry.
Outcomes == {"token", "IP_BLOCKED", "ACCOUNT_BANNED", "LOGIN_FAILED", "NAVIGATION_TIMEOUT", "threw"}

\* "plain": the status the handler answers with once loginWithRetry has
\* settled, "none" where it returns without answering
plainStatus(out) ==
  IF out = "threw" THEN "500"
  ELSE LET res == ReturnValue(out)
       IN  IF Has(res, "error")
             THEN IF res.error = "IP_BLOCKED" THEN "none"
                  ELSE IF res.error \in {"ACCOUNT_BANNED", "IMPERVA_BLOCKED"} THEN "418"
                  ELSE IF res.error = "LOGIN_FAILED" THEN "400"
                  ELSE "500"
           ELSE IF Has(res, "token") THEN "200"
           ELSE "500"

\* "busy"
busyStatus(out) ==
  IF out = "threw" THEN "500"
  ELSE LET res == ReturnValue(out)
       IN  IF Has(res, "error")
             THEN IF res.error = "IP_BLOCKED" THEN "403"
                  ELSE IF res.error \in {"ACCOUNT_BANNED", "IMPERVA_BLOCKED"} THEN "418"
                  ELSE IF res.error \in {"LOGIN_FAILED", "INVALID_CREDENTIALS", "ACCOUNT_DISABLED"}
                    THEN "400"
                  ELSE "500"
           ELSE IF Has(res, "token") THEN "200"
           ELSE "500"

\* "counted": a rejected race is answered by the inner catch.  Otherwise
\* const { result, attempts } = loginResult; where loginResult has no field
\* result, result.token throws a TypeError and the outer catch answers.
countedStatus(out) ==
  IF out = "threw" THEN "500"
  ELSE LET loginResult == ReturnValue(out)
       IN  IF ~Has(loginResult, "result") THEN "500"
           ELSE LET res == loginResult.result
                IN  IF Has(res, "token") THEN "200"
                    ELSE IF ~Has(res, "error") THEN "500"
                    ELSE IF res.error = "IP_BLOCKED" THEN "403"
                    ELSE IF res.error \in {"ACCOUNT_BANNED", "IMPERVA_BLOCKED"} THEN "418"
                    ELSE IF res.error \in {"INVALID_CREDENTIALS", "LOGIN_FAILED", "ACCOUNT_DISABLED"}
                      THEN IF Has(loginResult, "attempts") /\ loginResult.attempts > 1
                             THEN "503" ELSE "400"
                    ELSE IF res.error = "NAVIGATION_TIMEOUT" THEN "504"
                    ELSE "500"

statusOf(rev, out) ==
  IF rev = "counted" THEN countedStatus(out)
  ELSE IF rev = "plain" THEN plainStatus(out)
  ELSE busyStatus(out)

\* api.counter is concurrentLogins, and isBusy as 0 or 1; api.at[r] is where
\* the handler of request r stands, api.running[r] whether the retry session
\* it has started still runs, api.sent[r] the statuses sent on its res.
InitApi ==
  /\ impl = "lock"
  /\ proxyList \in ProxyLists
  /\ freshPool
  /\ session = noSession
  /\ flights = noFlights
  /\ api \in {[rev |-> rev, counter |-> 0,
               at |-> [r \in Requests |-> "new"],
               running |-> [r \in Requests |-> FALSE],
               timedOut |-> [r \in Requests |-> FALSE],
               sent |-> [r \in Requests |-> <<>>]] : rev \in ApiRevs}
  /\ orch = "none" /\ launcher = "none" /\ net = "none" /\ proxy = null
  /\ opc = "off" /\ launch = idleLaunch /\ result = "none"
  /\ newProxy = null /\ promised = null
  /\ runs = 0 /\ acquires = 0 /\ attempts = <<>>
  /\ onlyTimeouts = TRUE /\ expired = FALSE
  /\ noStore

\* What the handler specification leaves alone.
apiFrame == <<budget, login, impl, proxyList, orch, launcher, net, proxy, expired, store,
              session, flights>>

\* The handler has an admission counter.
Admits(rev) == rev \in {"counted", "busy"}

\* finally { concurrentLogins--; }, finally { isBusy = false; }
Finally(a) ==
  IF a.rev = "counted" THEN [a EXCEPT !.counter = @ - 1]
  ELSE IF a.rev = "busy" THEN [a EXCEPT !.counter = 0]
  ELSE a

\* return res.status(status).json(..), then the finally block
Answer(a, r, status) ==
  Finally([a EXCEPT !.sent[r] = Append(@, status), !.at[r] = "done"])

\* A request arrives: the handler runs up to its await of loginWithRetry, or
\* to the answer it gives before.  hasBody: req.body has url, username and
\* password.
Arrive(r) ==
  /\ api.at[r] = "new"
  /\ IF Admits(api.rev) /\ api.counter >= maxConcurrentLogins
       THEN /\ api' = [api EXCEPT !.sent[r] = Append(@, "503"), !.at[r] = "rejected"]
            /\ UNCHANGED pool
       ELSE \E hasBody \in BOOLEAN :
              LET entered == IF Admits(api.rev) THEN [api EXCEPT !.counter = @ + 1] ELSE api
              IN  IF ~hasBody
                    THEN /\ api' = Answer(entered, r, "400")
                         /\ UNCHANGED pool
                    ELSE /\ \E ret \in Returns : GetNextProxyLock("c1", ret)
                         /\ api' = [entered EXCEPT !.at[r] = "awaiting", !.running[r] = TRUE]
  /\ UNCHANGED apiFrame

\* The retry session of request r settles with out.
SessionEnds(r) ==
  /\ api.running[r]
  /\ \E out \in Outcomes :
       LET ended == [api EXCEPT !.running[r] = FALSE]
           status == statusOf(api.rev, out)
       IN  api' = IF api.at[r] # "awaiting" THEN ended
                  ELSE IF status = "none" THEN [ended EXCEPT !.at[r] = "sleeping"]
                  ELSE Answer(ended, r, status)
  /\ UNCHANGED <<pool, apiFrame>>

\* "counted": the 60 seconds of timeoutPromise pass before loginWithRetry has
\* settled
TimeoutFires(r) ==
  /\ api.rev = "counted"
  /\ api.at[r] = "awaiting"
  /\ api' = Answer([api EXCEPT !.timedOut[r] = TRUE], r, "500")
  /\ UNCHANGED <<pool, apiFrame>>

\* "plain": await new Promise(resolve => setTimeout(resolve, 60000)); return;
ReturnSilently(r) ==
  /\ api.at[r] = "sleeping"
  /\ api' = [api EXCEPT !.at[r] = "returned"]
  /\ UNCHANGED <<pool, apiFrame>>

Settles ==
  \E r \in Requests : SessionEnds(r) \/ TimeoutFires(r) \/ ReturnSilently(r)

NextApi ==
  \/ \E r \in Requests : Arrive(r)
  \/ \E r \in Requests : SessionEnds(r)
  \/ \E r \in Requests : TimeoutFires(r)
  \/ \E r \in Requests : ReturnSilently(r)

SpecApi == InitApi /\ [][NextApi]_vars

\* Sessions and timers run to their end: the event loop serves every promise
\* that settles and every timer that expires.
FairApi == SpecApi /\ WF_vars(Settles)

\* C32: at no time do more retry sessions run than maxConcurrentLogins
\* allows; a request answered by the 60 second timeout keeps its place until
\* its session has ended.
C32_SessionsWithinLimit ==
  /\ Admits(api.rev) => Cardinality({r \in Requests : api.running[r]}) <= maxConcurrentLogins
  /\ \A r \in Requests :
       (api.rev = "counted" /\ api.timedOut[r] /\ api.running[r]) => api.counter >= 1

\* Two sessions run with maxConcurrentLogins = 1: the first request was
\* answered by the timeout, which let the second one in.
C32_TwoSessionsAfterTimeout ==
  /\ api.rev = "counted"
  /\ api.timedOut[1] /\ api.sent[1] = <<"500">>
  /\ api.running[1] /\ api.running[2]
  /\ api.counter = 1

\* C33: every request the handler has accepted receives exactly one HTTP
\* response, however its retry session ends: never a second response, and
\* once loginWithRetry is awaited a response follows.
C33_OneResponsePerRequest ==
  /\ [](\A r \in Requests : Len(api.sent[r]) <= 1)
  /\ \A r \in Requests : (api.at[r] = "awaiting") ~> (Len(api.sent[r]) = 1)

\* "plain": the session ended with IP_BLOCKED, the handler has waited its 60
\* seconds and returned, and nothing was sent
C33_ReturnedWithoutResponse ==
  \E r \in Requests :
    /\ api.rev = "plain"
    /\ api.at[r] = "returned"
    /\ ~api.running[r]
    /\ api.sent[r] = <<>>

----------------------------------------------------------------------------
(* C34: a proxy that failed its health check serves no attempt *)

\* The attempt at hand has chosen its proxy in the loop over getNextProxy and
\* isProxyWorking, and the last check of the loop has failed or no proxy was left.
NoneWorking == launch.proxyAttempt > 0 /\ ~launch.working

\* C34: when the loop over getNextProxy and isProxyWorking ends without a
\* proxy that passed the check, the attempt runs without a proxy; a proxy
\* that failed the check of an attempt never serves that attempt.
C34_FailedCheckMeansDirect ==
  [][(launch.pc = "run" /\ NoneWorking /\ SessionRuns) => ProxyOfRun = null]_vars

\* launcher "three": five proxies in a row have failed the check, and the
\* attempt has run through the fifth
C34_RanThroughFailedProxy ==
  /\ launcher = "three"
  /\ launch.proxyAttempt = maxProxyAttempts
  /\ ~launch.working
  /\ launch.selectedProxy \in Proxies
  /\ runs > 0
  /\ attempts[Len(attempts)].proxy = launch.selectedProxy
  /\ launch.pc \in {"top", "returned"}

----------------------------------------------------------------------------
(* C35: what getNextProxy hands out is used *)

\* The loop that chooses the proxy of an attempt receives a proxy from
\* getNextProxy, at once or after the sleep of the call.
LoopAcquires ==
  /\ launch.pc \in {"select", "awaitProxy"}
  /\ launch'.pc \in {"select", "run"}
  /\ launch'.selectedProxy \in Proxies

\* C35: every proxy getNextProxy hands to a login is the proxy of the
\* attempt it was fetched for: none is reserved and then dropped, and so no
\* attempt reserves a second one.
C35_AcquiredProxyIsUsed ==
  [][LoopAcquires => (launch'.pc = "run" /\ launch'.config = launch'.selectedProxy)]_vars

\* One attempt has reserved a second proxy after it dropped the first, which
\* had failed the health check and stays reserved in the pool.
C35_SecondProxyForOneAttempt ==
  /\ launch.pc = "run"
  /\ launch.proxyAttempt = 2
  /\ launch.working
  /\ launch.config \in Proxies
  /\ \E p \in Proxies \ {launch.config} : ~AvailableNow(p)

----------------------------------------------------------------------------
(* The pool with everything that touches its stats: getNextProxy, the     *)
(* reports of the sessions, time, and the decay timer                     *)

\* Only the pool of proxyPool.js:507-774 has the decay timer.
InitDecaying == Init /\ impl = "wait"

\* setInterval(decayProxyStats, DECAY_INTERVAL_MS): the timer fires, and the
\* time that has passed is counted
DecayCounted ==
  \E d \in DecayDelays :
    DecayTimer(d) /\ Passing(d) /\ UNCHANGED <<grants, held, setup, login>>

NextDecaying ==
  \/ \E c \in Racing : CallAsync(c)
  \/ \E c \in Racing : TimerWait(c)
  \/ \E p \in Proxies : SessionFailed(p)
  \/ \E p \in Proxies : SessionSucceeded(p)
  \/ Tick
  \/ DecayCounted

SpecDecaying == InitDecaying /\ [][NextDecaying]_vars

\* The decay has found the stats of p old enough: p was last used more than
\* DECAY_INTERVAL_MS before the run.
OldEnough(p) == now - proxyStats'[p].lastUsed > DECAY_INTERVAL_MS

\* C36: starting from default stats, a proxy whose cooldown is above the
\* default has failCount > 0, so that the guard failCount > 0 of
\* decayProxyStats keeps no penalized proxy from being relaxed: every run
\* lowers the cooldown of each proxy that is above the default and old enough.
C36_PenalizedHasFailCount ==
  /\ [](\A p \in Proxies :
          proxyStats[p].cooldown > DEFAULT_LOCK_DURATION_MS => proxyStats[p].failCount > 0)
  /\ [][ev'.op = "decayProxyStats" =>
          \A p \in Proxies :
            (proxyStats[p].cooldown > DEFAULT_LOCK_DURATION_MS /\ OldEnough(p))
              => proxyStats'[p].cooldown < proxyStats[p].cooldown]_vars

\* A decay has just relaxed a proxy that getNextProxy had handed out and
\* whose session had reported a failure: it is back at the default.
C36_PenalizedProxyRelaxed ==
  \E p \in Proxies :
    /\ ev.op = "decayProxyStats"
    /\ streak[p] = -1
    /\ proxyStats[p].useCount > 0
    /\ proxyStats[p].cooldown = DEFAULT_LOCK_DURATION_MS
    /\ proxyStats[p].failCount = 0

----------------------------------------------------------------------------
(* C37: outcomes and reservations *)

\* C37: while every proxy reaches its session through getNextProxy and every
\* session reports once, the pool never holds more outcomes of a proxy than
\* reservations: successCount + failCount <= useCount.
C37_OutcomesWithinUses ==
  \A p \in Proxies :
    proxyStats[p].successCount + proxyStats[p].failCount <= proxyStats[p].useCount

\* "candidate": the call slept, got its candidate although it was still
\* locked, and counted a failure of its own; then the session reported its
\* failure.  One reservation after the first, two failures.
C37_FailureCountedTwice ==
  \E p \in Proxies :
    /\ impl = "candidate"
    /\ ev = Event("reportProxyFailure", p, {})
    /\ held[p] = 0
    /\ proxyStats[p].useCount = 2
    /\ proxyStats[p].successCount = 1
    /\ proxyStats[p].failCount = 2

----------------------------------------------------------------------------
(* Calls of getNextProxy that wait, in the pool of proxyPool.js:507-774:  *)
(* runs without end.  A caller holds at most one proxy and lets go of it  *)
(* before it calls again.                                                 *)

MaxCount == 1      \* what the counters of the stats count up to in runs without end

\* useCount, successCount and failCount only ever grow, and no choice of a
\* proxy reads them.  So that a run without end has finitely many states,
\* the specification of such runs keeps them up to MaxCount.
Forget(st) ==
  [p \in DOMAIN st |-> [st[p] EXCEPT !.useCount = Min(@, MaxCount),
                                     !.successCount = Min(@, MaxCount),
                                     !.failCount = Min(@, MaxCount)]]

\* The proxies handed out and not yet let go of.
Holding == {p \in Proxies : held[p] > 0}

InitWaiting ==
  /\ impl = "wait"
  /\ proxyList = <<"p1">>
  /\ freshPool
  /\ noLogin
  /\ noStore

\* What the waiting specification leaves alone.
ashore == <<grants, ticks, setup, login>>

Holds(ret) ==
  held' = IF ret \in Proxies THEN [held EXCEPT ![ret] = @ + 1] ELSE held

\* The calls that sleep.
Sleepers == {c \in Callers : pc[c] = "sleeping"}

\* A caller that holds no proxy calls getNextProxy.
WaitCall(c) ==
  /\ Cardinality(Sleepers) + held[proxyList[1]] < Cardinality(Callers)
  /\ \E ret \in Returns : GetNextProxyCall(c, ret) /\ Holds(ret)
  /\ UNCHANGED ashore

\* The timer of the sleeping call c fires.  Timers fire in the order in
\* which they expire.
WaitTimer(c) ==
  /\ \A k \in Sleepers : wakeAt[c] <= wakeAt[k]
  /\ \E ret \in Returns, d \in Waits :
       /\ WakeWait(c, ret, d)
       /\ Holds(ret)
  /\ UNCHANGED ashore

\* The session that holds p ends: it reports a failure or a success
\* (part_015), or nothing (login_with_retry.js).
WaitReport(p) ==
  /\ held[p] > 0
  /\ held' = [held EXCEPT ![p] = @ - 1]
  /\ \/ /\ proxyStats' = Forget(reportProxyFailure(proxyStats, p, now))
        /\ ev' = Event("reportProxyFailure", p, {})
     \/ /\ proxyStats' = Forget(reportProxySuccess(proxyStats, p, now))
        /\ ev' = Event("reportProxySuccess", p, {})
     \/ /\ proxyStats' = Forget(proxyStats)
        /\ ev' = Event("silent", p, {})
  /\ UNCHANGED <<lockedProxies, pc, wakeAt, candidate, streak, ashore>>

\* Time passes while no timer is more than a millisecond late.
WaitTick ==
  /\ \E d \in Delays :
       /\ \A c \in Sleepers : now + d <= wakeAt[c] + 1
       /\ Elapse(d)
  /\ UNCHANGED <<held, ashore>>

NextWaiting ==
  \/ \E c \in Callers : WaitCall(c)
  \/ \E c \in Callers : WaitTimer(c)
  \/ \E p \in Proxies : WaitReport(p)
  \/ WaitTick

SpecWaiting == InitWaiting /\ [][NextWaiting]_vars

\* setTimeout: the timer of every sleeping call fires.
FairWaiting == SpecWaiting /\ \A c \in Callers : WF_vars(WaitTimer(c))

\* C38: a call of getNextProxy that found every proxy locked and waits
\* returns in the end, whatever the other callers acquire and report, and
\* what a call returns is a proxy, never null.
C38_WaitingCallReturns ==
  /\ [](ev.op = "getNextProxy" => ev.proxy \in Proxies)
  /\ \A c \in Callers : (pc[c] = "sleeping") ~> (pc[c] = "idle")

\* The call c2 sleeps, the proxy is held by another caller, and it has been
\* handed out twice already: the sleep of c2 ends no sooner than the next
\* cooldown.
C38_SleepsAgain ==
  /\ impl = "wait"
  /\ pc["c2"] = "sleeping"
  /\ ev.op = "sleep"
  /\ held["p1"] = 1
  /\ proxyStats["p1"].useCount >= 2
  /\ wakeAt["c2"] > now

----------------------------------------------------------------------------
(* C39: fixProxyUrl on what fixProxyUrl has returned *)

\* The proxy of the list, fixProxyUrl(line), as loadProxies stores it.
Normalized == fixProxyUrl(line)

\* C39: fixProxyUrl leaves a proxy URL that it has produced as it is, so
\* that the proxy has one key: the one of the list is the one the stats are
\* loaded under and the one getProxyAuthHeaders computes.
C39_FixProxyUrlIdempotent ==
  proxyList # <<>> =>
    /\ fixProxyUrl(Normalized) = Normalized
    /\ saving # "down" => DOMAIN proxyStats \subseteq {KeyNames[1]}

\* The line has credentials with a character that encodeURIComponent
\* escapes: the second fixProxyUrl escapes the "%" of the first, and the
\* stats saved under the proxy of the list were loaded under another key.
C39_EscapedTwice ==
  /\ proxyList # <<>>
  /\ impl = "lock"
  /\ ev.op = "loadProxyStats"
  /\ Len(fixProxyUrl(Normalized)) = Len(Normalized) + 2
  /\ file.kind = "whole"
  /\ RefixedKey(line, KeyNames[1]) = KeyNames[2]
  /\ KeyNames[2] \in DOMAIN proxyStats

====
